---- MODULE Spec2Model ----
(***************************************************************************)
(* Model of the msg markup pipeline: Lexer (src/src/token.rs), recursive   *)
(* descent parser (src/src/parser.rs) and the dialect generator            *)
(* (src/src/generator.rs).                                                  *)
(*                                                                          *)
(* A string is a sequence of characters; a character is a one-symbol value. *)
(* Positions and cursors are 0-based as in the source, so the character at *)
(* position p of input is input[p + 1].                                     *)
(***************************************************************************)
EXTENDS Integers, Sequences, FiniteSets, TLC

VARIABLES input, position, tokens, pc, result, document, mode, writer,
          formatters, registered, before, outcome, rules, callers

\* The state of the lexer, the parser and the caller's document and writer.
pipevars == <<input, position, tokens, pc, result, document, mode, writer>>

\* The generator's registry, the formatters handed to register_formatter so
\* far (history), the writer as it was when generate was last called
\* (history) and what that call returned.
genvars == <<formatters, registered, before, outcome>>

\* The rule list handed to apply_conditional_format, and the callers that
\* share one generator: for each its document, its writer and what its
\* generate calls have returned.
utilvars == <<rules, callers>>

vars == <<pipevars, genvars, utilvars>>

(***************************************************************************)
(* Characters.  The backtick and the double quote cannot be written inside *)
(* a TLA+ string literal, so they are named.                                *)
(***************************************************************************)
STAR == "*"
UNDERSCORE == "_"
BACKTICK == "grave"
TILDE == "~"
PIPE == "|"
AT == "@"
HASH == "#"
SLASH == "/"
LPAREN == "("
RPAREN == ")"
LBRACKET == "["
RBRACKET == "]"
LBRACE == "{"
RBRACE == "}"
BACKSLASH == "\\"
NEWLINE == "\n"
DQUOTE == "quot"
AMP == "&"
LT == "<"
GT == ">"

\* The characters at which read_text stops.
ReservedChars ==
  {STAR, UNDERSCORE, BACKTICK, TILDE, PIPE, AT, HASH, SLASH, LPAREN, RPAREN,
   LBRACKET, RBRACKET, LBRACE, RBRACE, BACKSLASH, NEWLINE}

\* char::is_alphanumeric restricted to the characters the model draws from.
AlphanumericChars == {"a", "b", "c", "x", "1"}

is_alphanumeric(ch) == ch \in AlphanumericChars

(***************************************************************************)
(* Bounds of the input families.                                            *)
(***************************************************************************)
MaxLen == 4
MaxLexLen == 3
MaxFairLen == 2
MaxUrlLen == 3
MaxBodyLen == 2
MaxPlainLen == 2
MaxTextLen == 2
MaxPayloadLen == 1
MaxCodeLen == 2
MaxRegistrations == 2
MaxItems == 2
MaxCols == 2

\* All sequences over S of length 0..n.
Strings(S, n) == UNION {[1..k -> S] : k \in 0..n}

(***************************************************************************)
(* Tokens (enum Token).  A token is a record; payload-free tokens carry an *)
(* empty val.                                                               *)
(***************************************************************************)
Tok(t) == [type |-> t, val |-> <<>>]
TokV(t, v) == [type |-> t, val |-> v]

(***************************************************************************)
(* Lexer                                                                    *)
(***************************************************************************)
\* Option<char>: the empty sequence is None, <<c>> is Some(c).
current_char(inp, pos) == IF pos < Len(inp) THEN <<inp[pos + 1]>> ELSE <<>>

is_at_end(inp, pos) == pos >= Len(inp)

\* The loop of read_mention / read_hashtag / read_command: the position after
\* the longest run of alphanumeric or underscore characters starting at pos.
RECURSIVE ident_end(_, _)
ident_end(inp, pos) ==
  IF pos < Len(inp) /\ (is_alphanumeric(inp[pos + 1]) \/ inp[pos + 1] = UNDERSCORE)
  THEN ident_end(inp, pos + 1)
  ELSE pos

\* read_ident with a wrong restore: an empty run puts the position back before
\* the trigger character.
read_ident_restore_before(inp, pos, type) ==
  LET start == pos - 1
      e == ident_end(inp, pos)
      name == SubSeq(inp, pos + 1, e)
  IN IF name = <<>>
     THEN [some |-> FALSE, token |-> Tok("None"), position |-> start]
     ELSE [some |-> TRUE, token |-> TokV(type, name), position |-> e]

\* Option<Token> plus the position the lexer is left at.
read_ident(inp, pos, type) ==
  LET start == pos
      e == ident_end(inp, pos)
      name == SubSeq(inp, pos + 1, e)
  IN IF name = <<>>
     THEN [some |-> FALSE, token |-> Tok("None"), position |-> start]
     ELSE [some |-> TRUE, token |-> TokV(type, name), position |-> e]

read_mention(inp, pos) == read_ident(inp, pos, "Mention")

read_hashtag(inp, pos) == read_ident(inp, pos, "Hashtag")

read_command(inp, pos) == read_ident(inp, pos, "Command")

\* The loop of read_text: the position of the first reserved character at or
\* after pos, or the end of input.
RECURSIVE text_end(_, _)
text_end(inp, pos) ==
  IF pos < Len(inp) /\ inp[pos + 1] \notin ReservedChars
  THEN text_end(inp, pos + 1)
  ELSE pos

\* read_text that stops after one character instead of reading the whole run.
read_text_one(inp, pos) ==
  [token |-> TokV("Text", SubSeq(inp, pos + 1, pos + 1)), position |-> pos + 1]

read_text(inp, pos) ==
  LET e == text_end(inp, pos)
  IN [token |-> TokV("Text", SubSeq(inp, pos + 1, e)), position |-> e]

\* The token of a single-character punctuation.
PunctType(ch) ==
  CASE ch = STAR -> "Star"
    [] ch = UNDERSCORE -> "Underscore"
    [] ch = BACKTICK -> "Backtick"
    [] ch = TILDE -> "Tilde"
    [] ch = PIPE -> "Pipe"
    [] ch = LPAREN -> "LeftParen"
    [] ch = RPAREN -> "RightParen"
    [] ch = LBRACKET -> "LeftBracket"
    [] ch = RBRACKET -> "RightBracket"
    [] ch = LBRACE -> "LeftBrace"
    [] ch = RBRACE -> "RightBrace"
    [] ch = NEWLINE -> "LineBreak"
    [] OTHER -> "None"

\* next_token whose backslash branch does not advance over the escaped
\* character, which is then lexed a second time.
next_token_escape_once(inp, pos) ==
  LET ch == inp[pos + 1]
  IN CASE ch = AT ->
            LET m == read_mention(inp, pos + 1)
            IN IF m.some THEN [token |-> m.token, position |-> m.position]
               ELSE [token |-> Tok("At"), position |-> m.position]
       [] ch = HASH ->
            LET h == read_hashtag(inp, pos + 1)
            IN IF h.some THEN [token |-> h.token, position |-> h.position]
               ELSE [token |-> Tok("Hash"), position |-> h.position]
       [] ch = SLASH ->
            LET c == read_command(inp, pos + 1)
            IN IF c.some THEN [token |-> c.token, position |-> c.position]
               ELSE [token |-> Tok("Slash"), position |-> c.position]
       [] ch = BACKSLASH ->
            IF current_char(inp, pos + 1) # <<>>
            THEN [token |-> TokV("Escape", <<inp[pos + 2]>>), position |-> pos + 1]
            ELSE [token |-> TokV("Text", <<BACKSLASH>>), position |-> pos + 1]
       [] PunctType(ch) # "None" ->
            [token |-> Tok(PunctType(ch)), position |-> pos + 1]
       [] OTHER -> read_text(inp, pos)

\* Lexer::next_token at a position that is not the end of input.
next_token(inp, pos) ==
  LET ch == inp[pos + 1]
  IN CASE ch = AT ->
            LET m == read_mention(inp, pos + 1)
            IN IF m.some THEN [token |-> m.token, position |-> m.position]
               ELSE [token |-> Tok("At"), position |-> m.position]
       [] ch = HASH ->
            LET h == read_hashtag(inp, pos + 1)
            IN IF h.some THEN [token |-> h.token, position |-> h.position]
               ELSE [token |-> Tok("Hash"), position |-> h.position]
       [] ch = SLASH ->
            LET c == read_command(inp, pos + 1)
            IN IF c.some THEN [token |-> c.token, position |-> c.position]
               ELSE [token |-> Tok("Slash"), position |-> c.position]
       [] ch = BACKSLASH ->
            IF current_char(inp, pos + 1) # <<>>
            THEN [token |-> TokV("Escape", <<inp[pos + 2]>>), position |-> pos + 2]
            ELSE [token |-> TokV("Text", <<BACKSLASH>>), position |-> pos + 1]
       [] PunctType(ch) # "None" ->
            [token |-> Tok(PunctType(ch)), position |-> pos + 1]
       [] OTHER -> read_text(inp, pos)

(***************************************************************************)
(* Document model (enum Element).  Option<String> is the empty sequence    *)
(* for None and <<s>> for Some(s).                                          *)
(***************************************************************************)
Text(s) == [kind |-> "Text", text |-> s]
Styled(kind, children) == [kind |-> kind, children |-> children]
Bold(children) == Styled("Bold", children)
Italic(children) == Styled("Italic", children)
Underline(children) == Styled("Underline", children)
Strikethrough(children) == Styled("Strikethrough", children)
Spoiler(children) == Styled("Spoiler", children)
Code(code) == [kind |-> "Code", code |-> code]
Pre(code, language) == [kind |-> "Pre", code |-> code, language |-> language]
Link(text, url) == [kind |-> "Link", children |-> text, url |-> url]
Mention(username) == [kind |-> "Mention", username |-> username]
Hashtag(tag) == [kind |-> "Hashtag", tag |-> tag]
Command(name, args) == [kind |-> "Command", name |-> name, args |-> args]
TextLink(text, url) == [kind |-> "TextLink", text |-> text, url |-> url]
MentionId(user_id, text) == [kind |-> "MentionId", user_id |-> user_id, text |-> text]
Emoji(emoji) == [kind |-> "Emoji", emoji |-> emoji]
CustomEmoji(emoji, id) == [kind |-> "CustomEmoji", emoji |-> emoji, id |-> id]
Quote(children) == [kind |-> "Quote", children |-> children]
Custom(formatter, value) == [kind |-> "Custom", formatter |-> formatter, value |-> value]
Group(children) == [kind |-> "Group", children |-> children]

\* struct ListNode, enum ListStyle and struct ListItem.  ListStyle::Custom
\* carries its marker; Option<Box<ListNode>> is <<>> or <<list>>.
Bullet == [style |-> "Bullet", marker |-> <<>>]
Numbered == [style |-> "Numbered", marker |-> <<>>]
CustomStyle(marker) == [style |-> "Custom", marker |-> marker]
ListItem(content, nested) == [content |-> content, nested |-> nested]
ListNode(style, items) == [style |-> style, items |-> items]
List(list) == [kind |-> "List", list |-> list]

\* struct TableCell, TableRow and TableNode; a row is the sequence of its
\* cells.  colspan and rowspan are the defaults of TableCell::default.
TableCell(content, align) ==
  [content |-> content, align |-> align, colspan |-> 1, rowspan |-> 1]
TableRow(cells) == [cells |-> cells]
TableNode(headers, rows, style) ==
  [headers |-> headers, rows |-> rows, style |-> style, rules |-> <<>>]
Table(table) == [kind |-> "Table", table |-> table]

CellAligns == {"Left", "Center", "Right"}
TableStyles == {"Ascii", "Unicode", "Minimal", "Compact"}

(***************************************************************************)
(* Parser.  Every parse function returns a Result together with the cursor *)
(* it leaves the stream at.  The field opened is a history of the parse:   *)
(* the constructs the parser has opened so far, each with the cursor of    *)
(* its first opener token; it is kept when the parse fails.                *)
(***************************************************************************)
Ok(v, c, o) ==
  [ok |-> TRUE, value |-> v, cursor |-> c, err |-> "None", msg |-> "", opened |-> o]

Err(e, m, c, o) ==
  [ok |-> FALSE, value |-> <<>>, cursor |-> c, err |-> e, msg |-> m, opened |-> o]

Opened(kind, c) == {[kind |-> kind, at |-> c]}

\* Adds history to a result.
Noting(r, o) == [r EXCEPT !.opened = @ \union o]

\* ParseStream::peek: Option<&Token>.
peek(toks, c) == IF c < Len(toks) THEN <<toks[c + 1]>> ELSE <<>>

peek_ahead(toks, c, n) == peek(toks, c + n)

PeekIs(toks, c, type) == c < Len(toks) /\ toks[c + 1].type = type

\* An advance that moves the cursor even when no token is left.
advance_unchecked(toks, c) == c + 1

\* ParseStream::advance: the cursor after the call.
advance(toks, c) == IF c < Len(toks) THEN c + 1 ELSE c

consume(toks, c, expected) ==
  IF c < Len(toks)
  THEN IF toks[c + 1].type = expected
       THEN Ok(<<>>, c + 1, {})
       ELSE Err("Parse", "Expected, found", c + 1, {})
  ELSE Err("UnexpectedEof", "", c, {})

stream_is_at_end(toks, c) == c >= Len(toks) \/ toks[c + 1].type = "Eof"

RECURSIVE parse_element(_, _)
RECURSIVE parse_until_double(_, _, _, _, _, _)
RECURSIVE parse_until_single(_, _, _, _, _, _)
RECURSIVE right_bracket_loop(_, _, _, _)

\* The scan loop shared by parse_until_double_star, _double_underscore and
\* _double_tilde: elems and o are the elements and the history collected so far.
parse_until_double(toks, c, elems, o, delim, unclosed) ==
  IF c >= Len(toks)
  THEN Err("Parse", unclosed, c, o)
  ELSE IF PeekIs(toks, c, delim) /\ PeekIs(toks, c + 1, delim)
       THEN Ok(elems, advance(toks, advance(toks, c)), o)
       ELSE LET r == parse_element(toks, c)
            IN IF r.ok
               THEN parse_until_double(toks, r.cursor, Append(elems, r.value),
                                       o \union r.opened, delim, unclosed)
               ELSE Noting(r, o)

\* The scan loop shared by parse_until_single_star, _single_underscore and
\* _single_tilde.
parse_until_single(toks, c, elems, o, delim, unclosed) ==
  IF c >= Len(toks)
  THEN Err("Parse", unclosed, c, o)
  ELSE IF PeekIs(toks, c, delim)
       THEN Ok(elems, advance(toks, c), o)
       ELSE LET r == parse_element(toks, c)
            IN IF r.ok
               THEN parse_until_single(toks, r.cursor, Append(elems, r.value),
                                       o \union r.opened, delim, unclosed)
               ELSE Noting(r, o)

parse_until_double_star(toks, c) ==
  parse_until_double(toks, c, <<>>, {}, "Star", "Unclosed bold")

\* parse_until_single_star that returns the elements collected when the
\* tokens run out, instead of the unclosed-italic error.
parse_until_single_star_lenient(toks, c) ==
  LET r == parse_until_single(toks, c, <<>>, {}, "Star", "Unclosed italic")
  IN IF ~r.ok /\ r.msg = "Unclosed italic" /\ r.cursor >= Len(toks)
     THEN Ok(<<>>, r.cursor, r.opened)
     ELSE r

parse_until_single_star(toks, c) ==
  parse_until_single(toks, c, <<>>, {}, "Star", "Unclosed italic")

parse_until_double_underscore(toks, c) ==
  parse_until_double(toks, c, <<>>, {}, "Underscore", "Unclosed underline")

parse_until_single_underscore(toks, c) ==
  parse_until_single(toks, c, <<>>, {}, "Underscore", "Unclosed italic")

parse_until_double_tilde(toks, c) ==
  parse_until_double(toks, c, <<>>, {}, "Tilde", "Unclosed strikethrough")

parse_until_single_tilde(toks, c) ==
  parse_until_single(toks, c, <<>>, {}, "Tilde", "Unclosed spoiler")

right_bracket_loop(toks, c, elems, o) ==
  IF c >= Len(toks)
  THEN Err("Parse", "Unclosed bracket", c, o)
  ELSE IF PeekIs(toks, c, "RightBracket")
       THEN Ok(elems, c, o)
       ELSE LET r == parse_element(toks, c)
            IN IF r.ok
               THEN right_bracket_loop(toks, r.cursor, Append(elems, r.value),
                                       o \union r.opened)
               ELSE Noting(r, o)

parse_until_right_bracket(toks, c) == right_bracket_loop(toks, c, <<>>, {})

\* Wraps the children a scan returned into a styled node, or passes the error on.
Wrapped(r, kind, o) ==
  IF r.ok THEN Noting([r EXCEPT !.value = Styled(kind, r.value)], o)
  ELSE Noting(r, o)

\* parse_bold_or_italic without the lookahead: every star opens italic.
parse_bold_or_italic_no_lookahead(toks, c) ==
  LET k == consume(toks, c, "Star")
  IN IF ~k.ok THEN k
     ELSE Wrapped(parse_until_single_star(toks, k.cursor),
                  "Italic", Opened("ItalicStar", c))

parse_bold_or_italic(toks, c) ==
  LET k == consume(toks, c, "Star")
  IN IF ~k.ok THEN k
     ELSE IF PeekIs(toks, k.cursor, "Star")
          THEN Wrapped(parse_until_double_star(toks, advance(toks, k.cursor)),
                       "Bold", Opened("Bold", c))
          ELSE Wrapped(parse_until_single_star(toks, k.cursor),
                       "Italic", Opened("ItalicStar", c))

parse_italic_or_underline(toks, c) ==
  LET k == consume(toks, c, "Underscore")
  IN IF ~k.ok THEN k
     ELSE IF PeekIs(toks, k.cursor, "Underscore")
          THEN Wrapped(parse_until_double_underscore(toks, advance(toks, k.cursor)),
                       "Underline", Opened("Underline", c))
          ELSE Wrapped(parse_until_single_underscore(toks, k.cursor),
                       "Italic", Opened("ItalicUnderscore", c))

parse_strikethrough_or_spoiler(toks, c) ==
  LET k == consume(toks, c, "Tilde")
  IN IF ~k.ok THEN k
     ELSE IF PeekIs(toks, k.cursor, "Tilde")
          THEN Wrapped(parse_until_double_tilde(toks, advance(toks, k.cursor)),
                       "Strikethrough", Opened("Strikethrough", c))
          ELSE Wrapped(parse_until_single_tilde(toks, k.cursor),
                       "Spoiler", Opened("Spoiler", c))

\* The while loop of parse_code_or_pre.
RECURSIVE code_loop(_, _, _)
code_loop(toks, c, code) ==
  IF c >= Len(toks)
  THEN Err("Parse", "Unclosed code block", c, {})
  ELSE CASE toks[c + 1].type = "Backtick" -> Ok(Code(code), advance(toks, c), {})
         [] toks[c + 1].type = "Text" ->
              code_loop(toks, advance(toks, c), code \o toks[c + 1].val)
         [] OTHER -> Err("Parse", "Unclosed code block", c, {})

\* The while loop of parse_pre_block.
RECURSIVE pre_loop(_, _, _, _, _)
pre_loop(toks, c, code, backtick_count, language) ==
  IF c >= Len(toks)
  THEN Err("Parse", "Unclosed pre block", c, {})
  ELSE CASE toks[c + 1].type = "Backtick" ->
              IF backtick_count + 1 = 3
              THEN Ok(Pre(code, language), advance(toks, c), {})
              ELSE pre_loop(toks, advance(toks, c), Append(code, BACKTICK),
                            backtick_count + 1, language)
         [] toks[c + 1].type = "Text" ->
              pre_loop(toks, advance(toks, c), code \o toks[c + 1].val, 0, language)
         [] toks[c + 1].type = "LineBreak" ->
              pre_loop(toks, advance(toks, c), Append(code, NEWLINE), 0, language)
         [] OTHER -> pre_loop(toks, advance(toks, c), code, 0, language)

parse_pre_block(toks, c) ==
  LET language == IF PeekIs(toks, c, "Text") THEN <<toks[c + 1].val>> ELSE <<>>
      c1 == IF language # <<>> THEN advance(toks, c) ELSE c
      c2 == IF language # <<>> /\ PeekIs(toks, c1, "LineBreak")
            THEN advance(toks, c1) ELSE c1
  IN pre_loop(toks, c2, <<>>, 0, language)

parse_code_or_pre(toks, c) ==
  LET k == consume(toks, c, "Backtick")
  IN IF ~k.ok THEN k
     ELSE IF PeekIs(toks, k.cursor, "Backtick")
          THEN IF PeekIs(toks, advance(toks, k.cursor), "Backtick")
               THEN Noting(parse_pre_block(toks, advance(toks, advance(toks, k.cursor))),
                           Opened("Pre", c))
               ELSE Ok(Code(<<>>), advance(toks, k.cursor), Opened("Code", c))
          ELSE Noting(code_loop(toks, k.cursor, <<>>), Opened("Code", c))

\* UrlLiteral that pushes the name of a command without its slash.
UrlLiteral_command_name_only(t) ==
  CASE t.type = "Text" -> t.val
    [] t.type = "Slash" -> <<SLASH>>
    [] t.type = "At" -> <<AT>>
    [] t.type = "Hash" -> <<HASH>>
    [] t.type = "Underscore" -> <<UNDERSCORE>>
    [] t.type = "Star" -> <<STAR>>
    [] t.type = "Tilde" -> <<TILDE>>
    [] t.type = "Pipe" -> <<PIPE>>
    [] t.type = "LeftBracket" -> <<LBRACKET>>
    [] t.type = "RightBracket" -> <<RBRACKET>>
    [] t.type = "LeftBrace" -> <<LBRACE>>
    [] t.type = "RightBrace" -> <<RBRACE>>
    [] t.type = "Command" -> t.val
    [] t.type = "Mention" -> <<AT>> \o t.val
    [] t.type = "Hashtag" -> <<HASH>> \o t.val
    [] OTHER -> <<>>

\* The literal a token contributes to a URL, or the empty sequence for a token
\* that ends the URL scan.
UrlLiteral(t) ==
  CASE t.type = "Text" -> t.val
    [] t.type = "Slash" -> <<SLASH>>
    [] t.type = "At" -> <<AT>>
    [] t.type = "Hash" -> <<HASH>>
    [] t.type = "Underscore" -> <<UNDERSCORE>>
    [] t.type = "Star" -> <<STAR>>
    [] t.type = "Tilde" -> <<TILDE>>
    [] t.type = "Pipe" -> <<PIPE>>
    [] t.type = "LeftBracket" -> <<LBRACKET>>
    [] t.type = "RightBracket" -> <<RBRACKET>>
    [] t.type = "LeftBrace" -> <<LBRACE>>
    [] t.type = "RightBrace" -> <<RBRACE>>
    [] t.type = "Command" -> <<SLASH>> \o t.val
    [] t.type = "Mention" -> <<AT>> \o t.val
    [] t.type = "Hashtag" -> <<HASH>> \o t.val
    [] OTHER -> <<>>

\* The while loop of parse_link that collects the URL.
RECURSIVE url_loop(_, _, _, _)
url_loop(toks, c, text, url) ==
  IF c >= Len(toks)
  THEN Err("Parse", "Unclosed link", c, {})
  ELSE CASE toks[c + 1].type = "RightParen" -> Ok(Link(text, url), advance(toks, c), {})
         [] toks[c + 1].type \in
              {"Text", "Slash", "At", "Hash", "Underscore", "Star", "Tilde", "Pipe",
               "LeftBracket", "RightBracket", "LeftBrace", "RightBrace",
               "Command", "Mention", "Hashtag"} ->
              url_loop(toks, advance(toks, c), text, url \o UrlLiteral(toks[c + 1]))
         [] OTHER -> Err("Parse", "Unclosed link", c, {})

parse_link(toks, c) ==
  LET o == Opened("Link", c)
      k == consume(toks, c, "LeftBracket")
  IN IF ~k.ok THEN k
     ELSE LET text == parse_until_right_bracket(toks, k.cursor)
          IN IF ~text.ok THEN Noting(text, o)
             ELSE LET k2 == consume(toks, text.cursor, "RightBracket")
                  IN IF ~k2.ok THEN Noting(k2, o \union text.opened)
                     ELSE LET k3 == consume(toks, k2.cursor, "LeftParen")
                          IN IF ~k3.ok THEN Noting(k3, o \union text.opened)
                             ELSE Noting(url_loop(toks, k3.cursor, text.value, <<>>),
                                         o \union text.opened)

\* A parse_element that rejects a token that starts no construct.
parse_element_stray_is_error(toks, c) ==
  IF c >= Len(toks)
  THEN Ok(Text(<<>>), advance(toks, c), {})
  ELSE LET token == toks[c + 1]
       IN CASE token.type = "Star" -> parse_bold_or_italic(toks, c)
            [] token.type = "Underscore" -> parse_italic_or_underline(toks, c)
            [] token.type = "Backtick" -> parse_code_or_pre(toks, c)
            [] token.type = "Tilde" -> parse_strikethrough_or_spoiler(toks, c)
            [] token.type = "LeftBracket" -> parse_link(toks, c)
            [] token.type = "Mention" -> Ok(Mention(token.val), advance(toks, c), {})
            [] token.type = "Hashtag" -> Ok(Hashtag(token.val), advance(toks, c), {})
            [] token.type = "Command" -> Ok(Command(token.val, <<>>), advance(toks, c), {})
            [] token.type = "Text" -> Ok(Text(token.val), advance(toks, c), {})
            [] token.type = "Escape" -> Ok(Text(token.val), advance(toks, c), {})
            [] token.type = "LineBreak" -> Ok(Text(<<NEWLINE>>), advance(toks, c), {})
            [] OTHER -> Err("Parse", "Unexpected token", c, {})

parse_element(toks, c) ==
  IF c >= Len(toks)
  THEN Ok(Text(<<>>), advance(toks, c), {})
  ELSE LET token == toks[c + 1]
       IN CASE token.type = "Star" -> parse_bold_or_italic(toks, c)
            [] token.type = "Underscore" -> parse_italic_or_underline(toks, c)
            [] token.type = "Backtick" -> parse_code_or_pre(toks, c)
            [] token.type = "Tilde" -> parse_strikethrough_or_spoiler(toks, c)
            [] token.type = "LeftBracket" -> parse_link(toks, c)
            [] token.type = "Mention" -> Ok(Mention(token.val), advance(toks, c), {})
            [] token.type = "Hashtag" -> Ok(Hashtag(token.val), advance(toks, c), {})
            [] token.type = "Command" -> Ok(Command(token.val, <<>>), advance(toks, c), {})
            [] token.type = "Text" -> Ok(Text(token.val), advance(toks, c), {})
            [] token.type = "Escape" -> Ok(Text(token.val), advance(toks, c), {})
            [] token.type = "LineBreak" -> Ok(Text(<<NEWLINE>>), advance(toks, c), {})
            [] OTHER -> Ok(Text(<<>>), advance(toks, c), {})

\* The while loop of parse over the token sequence tokenize returned.
RECURSIVE parse_loop(_, _, _, _)
parse_loop(toks, c, elements, o) ==
  IF stream_is_at_end(toks, c)
  THEN Ok(elements, c, o)
  ELSE LET r == parse_element(toks, c)
       IN IF r.ok
          THEN parse_loop(toks, r.cursor, Append(elements, r.value), o \union r.opened)
          ELSE Noting(r, o)

parse(toks) == parse_loop(toks, 0, <<>>, {})

(***************************************************************************)
(* Generator                                                                *)
(***************************************************************************)
\* str::replace(from, to) for a one-character pattern.
RECURSIVE replace(_, _, _)
replace(text, from, to) ==
  IF text = <<>> THEN <<>>
  ELSE (IF Head(text) = from THEN to ELSE <<Head(text)>>) \o replace(Tail(text), from, to)

\* escape_html that replaces the ampersand last, so the ampersands of the
\* entities it has just written are escaped again.
escape_html_amp_last(text) ==
  replace(replace(replace(replace(text, LT, <<AMP, "l", "t", ";">>),
                          GT, <<AMP, "g", "t", ";">>),
                  DQUOTE, <<AMP, "q", "u", "o", "t", ";">>),
          AMP, <<AMP, "a", "m", "p", ";">>)

escape_html(text) ==
  replace(replace(replace(replace(text, AMP, <<AMP, "a", "m", "p", ";">>),
                          LT, <<AMP, "l", "t", ";">>),
                  GT, <<AMP, "g", "t", ";">>),
          DQUOTE, <<AMP, "q", "u", "o", "t", ";">>)

\* The characters escape_text prefixes with a backslash in MarkdownV2.
MarkdownReserved ==
  {UNDERSCORE, STAR, LBRACKET, RBRACKET, LPAREN, RPAREN, TILDE, BACKTICK, GT, HASH,
   "+", "-", "=", PIPE, LBRACE, RBRACE, ".", "!"}

RECURSIVE escape_markdown(_)
escape_markdown(text) ==
  IF text = <<>> THEN <<>>
  ELSE (IF Head(text) \in MarkdownReserved THEN <<BACKSLASH, Head(text)>>
        ELSE <<Head(text)>>) \o escape_markdown(Tail(text))

escape_text(text, m) ==
  IF m = "MarkdownV2" THEN escape_markdown(text) ELSE escape_html(text)

\* escape_code that escapes the backtick first, so the backslash it has just
\* written is escaped again.
escape_code_backtick_first(code) ==
  replace(replace(code, BACKTICK, <<BACKSLASH, BACKTICK>>), BACKSLASH, <<BACKSLASH, BACKSLASH>>)

escape_code(code) ==
  replace(replace(code, BACKSLASH, <<BACKSLASH, BACKSLASH>>), BACKTICK, <<BACKSLASH, BACKTICK>>)

escape_pre(code) ==
  replace(replace(code, BACKSLASH, <<BACKSLASH, BACKSLASH>>), BACKTICK, <<BACKSLASH, BACKTICK>>)

escape_url(url) == replace(url, RPAREN, <<BACKSLASH, RPAREN>>)

\* [String]::join(sep).
RECURSIVE join(_, _)
join(strs, sep) ==
  IF strs = <<>> THEN <<>>
  ELSE IF Len(strs) = 1 THEN strs[1]
  ELSE strs[1] \o sep \o join(Tail(strs), sep)

\* "<name>" and "</name>".
OpenTag(name) == <<LT>> \o name \o <<GT>>
CloseTag(name) == <<LT, SLASH>> \o name \o <<GT>>

Fence == <<BACKTICK, BACKTICK, BACKTICK>>

\* The wrap strings of the five styled spans: MarkdownV2 marker and Html tag.
MarkdownWrap(kind) ==
  CASE kind = "Bold" -> <<STAR>>
    [] kind = "Italic" -> <<UNDERSCORE>>
    [] kind = "Underline" -> <<UNDERSCORE, UNDERSCORE>>
    [] kind = "Strikethrough" -> <<TILDE, TILDE>>
    [] kind = "Spoiler" -> <<PIPE, PIPE>>

HtmlTag(kind) ==
  CASE kind = "Bold" -> <<"b">>
    [] kind = "Italic" -> <<"i">>
    [] kind = "Underline" -> <<"u">>
    [] kind = "Strikethrough" -> <<"s">>
    [] kind = "Spoiler" -> <<"t", "g", "-", "s", "p", "o", "i", "l", "e", "r">>

StyledKinds == {"Bold", "Italic", "Underline", "Strikethrough", "Spoiler"}

\* Characters outside ASCII, each one character of the output, named.
BULLET == "bullet"
BOX_H == "box-h"
BOX_V == "box-v"
BOX_DOWN_RIGHT == "box-dr"
BOX_DOWN_H == "box-dh"
BOX_DOWN_LEFT == "box-dl"
BOX_V_RIGHT == "box-vr"
BOX_CROSS == "box-vh"
BOX_V_LEFT == "box-vl"
BOX_UP_RIGHT == "box-ur"
BOX_UP_H == "box-uh"
BOX_UP_LEFT == "box-ul"

\* str::repeat for a one-character string.
repeat(ch, n) == [i \in 1..n |-> ch]

\* The decimal digits of an unsigned integer ({} of usize and u64).
Digits == <<"0", "1", "2", "3", "4", "5", "6", "7", "8", "9">>

RECURSIVE to_string(_)
to_string(n) ==
  IF n < 10 THEN <<Digits[n + 1]>> ELSE to_string(n \div 10) \o <<Digits[(n % 10) + 1]>>

\* str::lines: the pieces between newlines; a final empty piece is dropped.
RECURSIVE lines_from(_, _)
lines_from(s, cur) ==
  IF s = <<>> THEN (IF cur = <<>> THEN <<>> ELSE <<cur>>)
  ELSE IF Head(s) = NEWLINE THEN <<cur>> \o lines_from(Tail(s), <<>>)
  ELSE lines_from(Tail(s), Append(cur, Head(s)))

lines(s) == lines_from(s, <<>>)

\* {:<w$}, {:^w$} and {:>w$}: pad with spaces up to w characters; centring
\* puts the odd space on the right.
pad(content, w, align) ==
  LET fill == IF w > Len(content) THEN w - Len(content) ELSE 0
      left == CASE align = "Left" -> 0
                [] align = "Center" -> fill \div 2
                [] align = "Right" -> fill
  IN repeat(" ", left) \o content \o repeat(" ", fill - left)

(***************************************************************************)
(* Custom formatters (src/src/formatter.rs).  A formatter is a record of   *)
(* its type and its fields.                                                 *)
(***************************************************************************)
PhoneFormatter == [type |-> "PhoneFormatter", symbol |-> <<>>, code |-> <<>>]
CurrencyFormatter(symbol, code) ==
  [type |-> "CurrencyFormatter", symbol |-> symbol, code |-> code]

\* CustomFormatter::name.
formatter_name(formatter) ==
  IF formatter.type = "PhoneFormatter" THEN <<"p", "h", "o", "n", "e">> ELSE formatter.code

\* The escape functions private to formatter.rs.
RECURSIVE formatter_escape_markdown(_)
formatter_escape_markdown(text) ==
  IF text = <<>> THEN <<>>
  ELSE (IF Head(text) \in {UNDERSCORE, STAR, LBRACKET, RBRACKET, LPAREN, RPAREN, TILDE,
                           BACKTICK, GT, HASH, "+", "-", "=", PIPE, LBRACE, RBRACE, ".", "!"}
        THEN <<BACKSLASH, Head(text)>>
        ELSE <<Head(text)>>) \o formatter_escape_markdown(Tail(text))

formatter_escape_html(text) ==
  replace(replace(replace(replace(text, AMP, <<AMP, "a", "m", "p", ";">>),
                          LT, <<AMP, "l", "t", ";">>),
                  GT, <<AMP, "g", "t", ";">>),
          DQUOTE, <<AMP, "q", "u", "o", "t", ";">>)

\* value.parse::<f64>() on the strings the model draws values from: a
\* non-empty run of digits, after an optional sign, is that number, anything
\* else is an error (<<>>).
RECURSIVE digits_value(_, _)
digits_value(s, acc) ==
  IF s = <<>> THEN acc
  ELSE digits_value(Tail(s), 10 * acc + (CHOOSE d \in 0..9 : Digits[d + 1] = Head(s)))

parse_f64(value) ==
  LET signed == value # <<>> /\ Head(value) \in {"+", "-"}
      digits == IF signed THEN Tail(value) ELSE value
  IN IF digits # <<>> /\ \A i \in 1..Len(digits) : \E d \in 0..9 : Digits[d + 1] = digits[i]
     THEN <<IF signed /\ Head(value) = "-"
            THEN 0 - digits_value(digits, 0)
            ELSE digits_value(digits, 0)>>
     ELSE <<>>

\* The `inline code` wrapping the built-in formatters share.
code_wrapped(text, m) ==
  IF m = "MarkdownV2"
  THEN <<BACKTICK>> \o formatter_escape_markdown(text) \o <<BACKTICK>>
  ELSE OpenTag(<<"c", "o", "d", "e">>) \o formatter_escape_html(text)
       \o CloseTag(<<"c", "o", "d", "e">>)

\* CustomFormatter::format.  Neither formatter returns an error.
format(formatter, value, m) ==
  IF formatter.type = "PhoneFormatter"
  THEN code_wrapped(value, m)
  ELSE LET parsed == parse_f64(value)
           amount == IF parsed = <<>> THEN 0 ELSE parsed[1]
           formatted_amount == to_string(amount) \o <<".", "0", "0", " ">> \o formatter.symbol
       IN code_wrapped(formatted_amount, m)

(***************************************************************************)
(* Generator (continued): the registry and generate                        *)
(***************************************************************************)
\* HashMap<String, Box<dyn CustomFormatter>> as a set of entries, at most
\* one per key.
NoFormatters == {}

\* An insert that keeps the entry the key already has.
insert_if_absent(map, key, value) ==
  IF \E e \in map : e.key = key THEN map ELSE map \union {[key |-> key, value |-> value]}

\* HashMap::insert: the entry of the same key, if any, is replaced.
insert(map, key, value) ==
  {e \in map : e.key # key} \union {[key |-> key, value |-> value]}

\* HashMap::get: None is <<>>.
get(map, key) ==
  IF \E e \in map : e.key = key
  THEN <<(CHOOSE e \in map : e.key = key).value>>
  ELSE <<>>

\* Generator::new and the generator after register_formatter.
Generator(m, fs) == [mode |-> m, formatters |-> fs]

register_formatter(self, formatter) ==
  [self EXCEPT !.formatters = insert(self.formatters, formatter_name(formatter), formatter)]

\* write_fmt! on a String writer: appends and cannot fail.
Written(w, s) == [ok |-> TRUE, writer |-> w \o s, err |-> "None", name |-> <<>>]

\* A miss that writes a placeholder for the node before it fails.
FormatterNotFound_placeholder(w, n) ==
  [ok |-> FALSE, writer |-> w \o <<"?">>, err |-> "FormatterNotFound", name |-> n]

\* Err(Error::FormatterNotFound(name)); the writer is as the caller finds it.
FormatterNotFound(w, n) ==
  [ok |-> FALSE, writer |-> w, err |-> "FormatterNotFound", name |-> n]

\* "tg://{what}?id={id}".
TgUrl(what, id) ==
  <<"t", "g", ":", "/", "/">> \o what \o <<"?", "i", "d", "=">> \o to_string(id)

RECURSIVE generate_element(_, _, _, _)
RECURSIVE generate_elements(_, _, _, _)
RECURSIVE generate_list_loop(_, _, _, _, _)

generate_elements(self, w, elements, m) ==
  IF elements = <<>> THEN Written(w, <<>>)
  ELSE LET r == generate_element(self, w, Head(elements), m)
       IN IF r.ok THEN generate_elements(self, r.writer, Tail(elements), m) ELSE r

\* The prefix of item i (0-based) of a list.
list_prefix(style, i) ==
  CASE style.style = "Bullet" -> <<BULLET, " ">>
    [] style.style = "Numbered" -> to_string(i + 1) \o <<".", " ">>
    [] style.style = "Custom" -> style.marker \o <<" ">>

\* The loop over a nested rendering's lines: "  {line}\n" for each.
indent_lines(ls) == join([i \in 1..Len(ls) |-> <<" ", " ">> \o ls[i] \o <<NEWLINE>>], <<>>)

\* The for loop of generate_list from item i (0-based) on.
generate_list_loop(self, w, list, m, i) ==
  IF i >= Len(list.items) THEN Written(w, <<>>)
  ELSE LET item == list.items[i + 1]
           r == generate_elements(self, w \o list_prefix(list.style, i), item.content, m)
       IN IF ~r.ok THEN r
          ELSE LET n == IF item.nested = <<>> THEN r
                        ELSE LET nested_content ==
                                   generate_list_loop(self, <<>>, item.nested[1], m, 0)
                             IN IF nested_content.ok
                                THEN Written(r.writer \o <<NEWLINE>>,
                                             indent_lines(lines(nested_content.writer)))
                                ELSE [nested_content EXCEPT !.writer = r.writer \o <<NEWLINE>>]
               IN IF ~n.ok THEN n
                  ELSE generate_list_loop(
                         self,
                         IF i < Len(list.items) - 1 THEN n.writer \o <<NEWLINE>> ELSE n.writer,
                         list, m, i + 1)

generate_list(self, w, list, m) == generate_list_loop(self, w, list, m, 0)

\* The content of a cell as the table code sees it: its Text children only.
cell_content(cell) ==
  join([k \in 1..Len(cell.content) |->
          IF cell.content[k].kind = "Text" THEN cell.content[k].text ELSE <<>>], <<>>)

\* The for loop of format_table_row from cell i (0-based) on.
RECURSIVE format_table_row_loop(_, _, _, _, _)
format_table_row_loop(w, cells, col_widths, separator, i) ==
  IF i >= Len(cells) THEN w
  ELSE format_table_row_loop(
         IF i < Len(col_widths)
         THEN w \o <<" ">> \o pad(cell_content(cells[i + 1]), col_widths[i + 1],
                                   cells[i + 1].align)
                \o <<" ">> \o separator
         ELSE w,
         cells, col_widths, separator, i + 1)

format_table_row(w, cells, col_widths, separator) ==
  format_table_row_loop(w \o separator, cells, col_widths, separator, 0)

MaxOf(S) == CHOOSE x \in S : \A y \in S : y <= x

\* The two for loops of calculate_column_widths: row r (1-based), cell i
\* (0-based), widths so far.
RECURSIVE column_widths_loop(_, _, _, _)
column_widths_loop(rows, r, i, widths) ==
  IF r > Len(rows) THEN widths
  ELSE IF i >= Len(rows[r]) THEN column_widths_loop(rows, r + 1, 0, widths)
  ELSE column_widths_loop(
         rows, r, i + 1,
         IF i < Len(widths)
         THEN [widths EXCEPT ![i + 1] = MaxOf({widths[i + 1], Len(cell_content(rows[r][i + 1]))})]
         ELSE widths)

\* A width computation that looks at the header only.
calculate_column_widths_header_only(rows) ==
  IF rows = <<>> THEN <<>>
  ELSE column_widths_loop(<<rows[1]>>, 1, 0, [i \in 1..Len(rows[1]) |-> 0])

calculate_column_widths(rows) ==
  IF rows = <<>> THEN <<>>
  ELSE LET col_count == MaxOf({Len(rows[r]) : r \in 1..Len(rows)})
       IN column_widths_loop(rows, 1, 0, [i \in 1..col_count |-> 0])

\* col_widths.iter().map(|w| fill.repeat(w + extra)).collect().join(junction)
border(col_widths, fill, extra, junction) ==
  join([i \in 1..Len(col_widths) |-> repeat(fill, col_widths[i] + extra)], junction)

\* for row in &table.rows { format_table_row; "\n" }
RECURSIVE table_rows(_, _, _, _)
table_rows(w, rows, col_widths, separator) ==
  IF rows = <<>> THEN w
  ELSE table_rows(format_table_row(w, Head(rows).cells, col_widths, separator) \o <<NEWLINE>>,
                  Tail(rows), col_widths, separator)

\* generate_unicode_table and generate_ascii_table differ in their characters.
generate_boxed_table(w, table, col_widths, h, v, top, mid, bottom) ==
  LET w1 == w \o Fence \o <<NEWLINE, top[1]>> \o border(col_widths, h, 2, <<top[2]>>)
              \o <<top[3], NEWLINE>>
      w2 == format_table_row(w1, table.headers, col_widths, <<v>>)
      w3 == w2 \o <<NEWLINE, mid[1]>> \o border(col_widths, h, 2, <<mid[2]>>)
               \o <<mid[3], NEWLINE>>
      w4 == table_rows(w3, table.rows, col_widths, <<v>>)
  IN w4 \o <<bottom[1]>> \o border(col_widths, h, 2, <<bottom[2]>>)
        \o <<bottom[3], NEWLINE>> \o Fence

generate_unicode_table(w, table, col_widths) ==
  generate_boxed_table(w, table, col_widths, BOX_H, BOX_V,
                       <<BOX_DOWN_RIGHT, BOX_DOWN_H, BOX_DOWN_LEFT>>,
                       <<BOX_V_RIGHT, BOX_CROSS, BOX_V_LEFT>>,
                       <<BOX_UP_RIGHT, BOX_UP_H, BOX_UP_LEFT>>)

generate_ascii_table(w, table, col_widths) ==
  generate_boxed_table(w, table, col_widths, "-", PIPE,
                       <<"+", "+", "+">>, <<"+", "+", "+">>, <<"+", "+", "+">>)

generate_minimal_table(w, table, col_widths) ==
  LET w1 == format_table_row(w \o Fence \o <<NEWLINE>>, table.headers, col_widths, <<" ">>)
      w2 == w1 \o <<NEWLINE>> \o border(col_widths, BOX_H, 0, <<" ">>) \o <<NEWLINE>>
  IN table_rows(w2, table.rows, col_widths, <<" ">>) \o Fence

generate_compact_table(w, table, col_widths) ==
  LET w1 == format_table_row(w \o Fence \o <<NEWLINE>>, table.headers, col_widths, <<" ">>)
  IN table_rows(w1 \o <<NEWLINE>>, table.rows, col_widths, <<" ">>) \o Fence

\* The rows calculate_column_widths is given: the header, then each row's cells.
all_rows(table) == <<table.headers>> \o [r \in 1..Len(table.rows) |-> table.rows[r].cells]

generate_table(w, table) ==
  LET col_widths == calculate_column_widths(all_rows(table))
  IN Written(<<>>,
             CASE table.style = "Unicode" -> generate_unicode_table(w, table, col_widths)
               [] table.style = "Ascii" -> generate_ascii_table(w, table, col_widths)
               [] table.style = "Minimal" -> generate_minimal_table(w, table, col_widths)
               [] table.style = "Compact" -> generate_compact_table(w, table, col_widths))

generate_element(self, w, element, m) ==
  CASE element.kind = "Text" -> Written(w, escape_text(element.text, m))
    [] element.kind \in StyledKinds ->
         LET open == IF m = "MarkdownV2" THEN MarkdownWrap(element.kind)
                     ELSE OpenTag(HtmlTag(element.kind))
             close == IF m = "MarkdownV2" THEN MarkdownWrap(element.kind)
                      ELSE CloseTag(HtmlTag(element.kind))
             r == generate_elements(self, w \o open, element.children, m)
         IN IF r.ok THEN Written(r.writer, close) ELSE r
    [] element.kind = "Code" ->
         IF m = "MarkdownV2"
         THEN Written(w, <<BACKTICK>> \o escape_code(element.code) \o <<BACKTICK>>)
         ELSE Written(w, OpenTag(<<"c", "o", "d", "e">>) \o escape_html(element.code)
                         \o CloseTag(<<"c", "o", "d", "e">>))
    [] element.kind = "Pre" ->
         IF m = "MarkdownV2"
         THEN IF element.language # <<>>
              THEN Written(w, Fence \o element.language[1] \o <<NEWLINE>>
                              \o escape_pre(element.code) \o <<NEWLINE>> \o Fence)
              ELSE Written(w, Fence \o <<NEWLINE>> \o escape_pre(element.code)
                              \o <<NEWLINE>> \o Fence)
         ELSE IF element.language # <<>>
              THEN Written(w, OpenTag(<<"p", "r", "e">>)
                              \o <<LT, "c", "o", "d", "e", " ", "c", "l", "a", "s", "s", "=",
                                   DQUOTE, "l", "a", "n", "g", "u", "a", "g", "e", "-">>
                              \o escape_html(element.language[1]) \o <<DQUOTE, GT>>
                              \o escape_html(element.code)
                              \o CloseTag(<<"c", "o", "d", "e">>) \o CloseTag(<<"p", "r", "e">>))
              ELSE Written(w, OpenTag(<<"p", "r", "e">>) \o escape_html(element.code)
                              \o CloseTag(<<"p", "r", "e">>))
    [] element.kind = "Link" ->
         IF m = "MarkdownV2"
         THEN LET r == generate_elements(self, w \o <<LBRACKET>>, element.children, m)
              IN IF r.ok
                 THEN Written(r.writer, <<RBRACKET, LPAREN>> \o escape_url(element.url)
                                        \o <<RPAREN>>)
                 ELSE r
         ELSE LET r == generate_elements(
                         self, w \o <<LT, "a", " ", "h", "r", "e", "f", "=", DQUOTE>>
                           \o escape_html(element.url) \o <<DQUOTE, GT>>,
                         element.children, m)
              IN IF r.ok THEN Written(r.writer, CloseTag(<<"a">>)) ELSE r
    [] element.kind = "Mention" -> Written(w, <<AT>> \o element.username)
    [] element.kind = "Hashtag" -> Written(w, <<HASH>> \o element.tag)
    [] element.kind = "Command" ->
         IF element.args = <<>>
         THEN Written(w, <<SLASH>> \o element.name)
         ELSE Written(w, <<SLASH>> \o element.name \o <<" ">> \o join(element.args, <<" ">>))
    [] element.kind = "TextLink" ->
         IF m = "MarkdownV2"
         THEN Written(w, <<LBRACKET>> \o escape_text(element.text, m) \o <<RBRACKET, LPAREN>>
                         \o escape_url(element.url) \o <<RPAREN>>)
         ELSE Written(w, <<LT, "a", " ", "h", "r", "e", "f", "=", DQUOTE>>
                         \o escape_html(element.url) \o <<DQUOTE, GT>>
                         \o escape_html(element.text) \o CloseTag(<<"a">>))
    [] element.kind = "MentionId" ->
         IF m = "MarkdownV2"
         THEN Written(w, <<LBRACKET>> \o escape_text(element.text, m) \o <<RBRACKET, LPAREN>>
                         \o TgUrl(<<"u", "s", "e", "r">>, element.user_id) \o <<RPAREN>>)
         ELSE Written(w, <<LT, "a", " ", "h", "r", "e", "f", "=", DQUOTE>>
                         \o TgUrl(<<"u", "s", "e", "r">>, element.user_id) \o <<DQUOTE, GT>>
                         \o escape_html(element.text) \o CloseTag(<<"a">>))
    [] element.kind = "Emoji" -> Written(w, element.emoji)
    [] element.kind = "CustomEmoji" ->
         IF m = "MarkdownV2"
         THEN Written(w, <<"!", LBRACKET>> \o element.emoji \o <<RBRACKET, LPAREN>>
                         \o TgUrl(<<"e", "m", "o", "j", "i">>, element.id) \o <<RPAREN>>)
         ELSE Written(w, <<LT, "t", "g", "-", "e", "m", "o", "j", "i", " ", "e", "m", "o", "j",
                           "i", "-", "i", "d", "=", DQUOTE>>
                         \o to_string(element.id) \o <<DQUOTE, GT>> \o element.emoji
                         \o CloseTag(<<"t", "g", "-", "e", "m", "o", "j", "i">>))
    [] element.kind = "List" -> generate_list(self, w, element.list, m)
    [] element.kind = "Table" -> generate_table(w, element.table)
    [] element.kind = "Quote" ->
         IF m = "MarkdownV2"
         THEN LET temp == generate_elements(self, <<>>, element.children, m)
              IN IF temp.ok
                 THEN Written(w, <<GT>> \o join(lines(temp.writer), <<NEWLINE, GT>>))
                 ELSE [temp EXCEPT !.writer = w]
         ELSE LET r == generate_elements(
                         self, w \o OpenTag(<<"b", "l", "o", "c", "k", "q", "u", "o", "t", "e">>),
                         element.children, m)
              IN IF r.ok
                 THEN Written(r.writer, CloseTag(<<"b", "l", "o", "c", "k", "q", "u", "o", "t", "e">>))
                 ELSE r
    [] element.kind = "Custom" ->
         LET fmt == get(self.formatters, element.formatter)
         IN IF fmt # <<>>
            THEN Written(w, format(fmt[1], element.value, m))
            ELSE FormatterNotFound(w, element.formatter)
    [] element.kind = "Group" -> generate_elements(self, w, element.children, m)

\* Generator::generate: one element into the caller's writer.
generate(self, w, element) == generate_element(self, w, element, self.mode)

ParseModes == {"MarkdownV2", "Html"}

(***************************************************************************)
(* Input families                                                           *)
(***************************************************************************)
\* Markup characters and one plain character, for the exhaustive strings.
Alphabet ==
  {STAR, UNDERSCORE, TILDE, BACKTICK, LBRACKET, RBRACKET, LPAREN, RPAREN,
   AT, BACKSLASH, NEWLINE, "a"}

\* Every character the lexer dispatches on, a letter and a non-letter.
LexAlphabet == ReservedChars \union {"a", " "}

\* One character of each branch of next_token.
FairAlphabet ==
  {STAR, UNDERSCORE, BACKTICK, AT, HASH, SLASH, LPAREN, BACKSLASH, NEWLINE, "a", " "}

\* Characters that are plain text to the lexer; some are reserved in a dialect.
PlainAlphabet == {"a", " ", ".", "!", "-", AMP, LT, GT, DQUOTE}

PlainTexts == Strings(PlainAlphabet, MaxPlainLen) \ {<<>>}

\* The delimiters of the styled spans with the node each one opens.
Delimiters ==
  {<<STAR, STAR>>, <<STAR>>, <<UNDERSCORE, UNDERSCORE>>, <<UNDERSCORE>>,
   <<TILDE, TILDE>>, <<TILDE>>}

KindOf(d) ==
  CASE d = <<STAR, STAR>> -> "Bold"
    [] d = <<STAR>> -> "Italic"
    [] d = <<UNDERSCORE, UNDERSCORE>> -> "Underline"
    [] d = <<UNDERSCORE>> -> "Italic"
    [] d = <<TILDE, TILDE>> -> "Strikethrough"
    [] d = <<TILDE>> -> "Spoiler"

Wrap(d, body) == d \o body \o d

\* "**t**", "*t*", ...
StyledInputs == {Wrap(d, t) : d \in Delimiters, t \in PlainTexts}

\* A span of i inside a span of o, with text on both sides: "**a*b*c**", ...
Nest(o, i) == Wrap(o, <<"a">> \o Wrap(i, <<"b">>) \o <<"c">>)

NestedInputs == {Nest(o, i) : o \in Delimiters, i \in Delimiters}

\* What may stand in a URL besides plain text.
UrlAlphabet ==
  {"a", ".", SLASH, AT, HASH, UNDERSCORE, STAR, TILDE, PIPE, LBRACKET, RBRACKET,
   LBRACE, RBRACE}

LinkOf(t, u) == <<LBRACKET>> \o t \o <<RBRACKET, LPAREN>> \o u \o <<RPAREN>>

LinkInputs == {LinkOf(t, u) : t \in {<<"a">>, <<"a", " ">>}, u \in Strings(UrlAlphabet, MaxUrlLen)}

\* What may stand inside a code span or a pre block besides backticks.
BodyAlphabet ==
  {"a", STAR, UNDERSCORE, TILDE, LBRACKET, RBRACKET, BACKSLASH, NEWLINE, AT}

PreOf(lang, body) == Fence \o lang \o <<NEWLINE>> \o body \o Fence

PreInputs ==
  {PreOf(l, b) : l \in {<<>>, <<"x">>}, b \in Strings(BodyAlphabet, MaxBodyLen)}

CodeOf(body) == <<BACKTICK>> \o body \o <<BACKTICK>>

CodeInputs == {CodeOf(b) : b \in Strings(BodyAlphabet, MaxBodyLen)}

\* An escaped character inside a span, inside a link text and inside a URL.
EscapedChars == {STAR, UNDERSCORE, TILDE, RBRACKET, RPAREN, BACKSLASH, "a"}

EscapedInputs ==
  {Wrap(d, <<"a", BACKSLASH, c, "b">>) : d \in Delimiters, c \in EscapedChars}
    \union {LinkOf(<<"a", BACKSLASH, c>>, <<"a">>) : c \in EscapedChars}
    \union {LinkOf(<<"a">>, <<"a", BACKSLASH, c>>) : c \in EscapedChars}

Inputs ==
  Strings(Alphabet, MaxLen) \union Strings(LexAlphabet, MaxLexLen)
    \union Strings(PlainAlphabet, MaxPlainLen) \union StyledInputs \union NestedInputs
    \union LinkInputs \union PreInputs \union CodeInputs \union EscapedInputs

\* Characters of a Text payload a caller may hand to the generator.
TextAlphabet == MarkdownReserved \union {AMP, LT, DQUOTE, BACKSLASH, ";", "a"}

\* The three list styles, the custom one with the marker "-".
ListStyles == {Bullet, Numbered, CustomStyle(<<"-">>)}

\* Lists of style s with 1..n items and no nested list, every item holding
\* Text a.
FlatLists(s, n) ==
  {ListNode(s, [i \in 1..k |-> ListItem(<<Text(<<"a">>)>>, <<>>)]) : k \in 1..n}

\* Lists of style s with 1..MaxItems items, each item with or without a
\* nested flat list of the same style.
NestedLists(s) ==
  UNION {{ListNode(s, [i \in 1..k |-> ListItem(<<Text(<<"a">>)>>, nested[i])]) :
            nested \in [1..k -> {<<>>} \union {<<l>> : l \in FlatLists(s, MaxItems)}]} :
         k \in 1..MaxItems}

\* Bullet lists whose first item nests a list that nests lists in turn,
\* alone or followed by a second item.
DeepLists ==
  {ListNode(Bullet, <<ListItem(<<Text(<<"a">>)>>, <<l>>)>> \o rest) :
     l \in NestedLists(Bullet), rest \in {<<>>, <<ListItem(<<Text(<<"a">>)>>, <<>>)>>}}

ListDocuments ==
  {<<List(l)>> : l \in UNION {NestedLists(s) : s \in ListStyles} \union DeepLists}

\* Cells of content length 0, 1 and 2; the last has a child that is not Text.
CellContents ==
  {<<>>, <<Text(<<"a">>)>>, <<Text(<<"a">>), Code(<<"x", "x", "x">>), Text(<<"b">>)>>}

\* The alignment of the cells of a column, as in examples/tables.rs: left,
\* centre, right, and so on.
AlignOf(i) == <<"Left", "Center", "Right">>[((i - 1) % 3) + 1]

\* Rows of 0..MaxCols cells with contents from the given set.
Rows(contents) ==
  UNION {{[i \in 1..k |-> TableCell(cs[i], AlignOf(i))] : cs \in [1..k -> contents]} :
         k \in 0..MaxCols}

\* Tables of a header and no row, one row, or that row and a one-cell row;
\* header and rows need not have the same number of cells.
TableDocuments ==
  {<<Table(TableNode(h, rs, st))>> :
     st \in TableStyles,
     h \in Rows(CellContents \ {<<>>}),
     rs \in {<<>>} \union UNION {{<<TableRow(r)>>,
                                   <<TableRow(r),
                                     TableRow(<<TableCell(<<Text(<<"b">>)>>, "Left")>>)>>} :
                                    r \in Rows(CellContents)}}

\* Documents a caller builds without the parser.
Documents ==
  {<<Text(s)>> : s \in Strings(TextAlphabet, MaxTextLen)}
    \union ListDocuments \union TableDocuments

(***************************************************************************)
(* The pipeline as a state machine                                          *)
(***************************************************************************)
\* What the generate calls made so far have returned: how many have
\* returned, and the Result of the last one.
NoOutcome == [calls |-> 0, ok |-> TRUE, err |-> "None", name |-> <<>>]

Returned(calls, r) == [calls |-> calls, ok |-> r.ok, err |-> r.err, name |-> r.name]

NoResult == [ok |-> FALSE, value |-> <<>>, cursor |-> 0, err |-> "None", msg |-> "",
             opened |-> {}]

\* parse(input) is called on a markup text: Lexer::new(input).
InitParse ==
  /\ input \in Inputs
  /\ position = 0
  /\ tokens = <<>>
  /\ pc = "tokenize"
  /\ result = NoResult
  /\ document = <<>>
  /\ mode = "None"
  /\ writer = <<>>
  /\ formatters = NoFormatters
  /\ registered = <<>>
  /\ before = <<>>
  /\ outcome = NoOutcome
  /\ rules = <<>>
  /\ callers = <<>>

\* The caller builds the document itself and hands it to a generator.
InitBuild ==
  /\ input = <<>>
  /\ position = 0
  /\ tokens = <<>>
  /\ pc = "generate"
  /\ result = NoResult
  /\ document \in Documents
  /\ mode = "None"
  /\ writer = <<>>
  /\ formatters = NoFormatters
  /\ registered = <<>>
  /\ before = <<>>
  /\ outcome = NoOutcome
  /\ rules = <<>>
  /\ callers = <<>>

Init == InitParse \/ InitBuild

\* One iteration of the while loop of Lexer::tokenize.
TokenizeStep ==
  /\ pc = "tokenize"
  /\ ~is_at_end(input, position)
  /\ LET t == next_token(input, position)
     IN /\ tokens' = Append(tokens, t.token)
        /\ position' = t.position
  /\ UNCHANGED <<input, pc, result, document, mode, writer, genvars, utilvars>>

\* The end of Lexer::tokenize: the loop is left and Eof is pushed.
TokenizeEof ==
  /\ pc = "tokenize"
  /\ is_at_end(input, position)
  /\ tokens' = Append(tokens, Tok("Eof"))
  /\ pc' = "parse"
  /\ UNCHANGED <<input, position, result, document, mode, writer, genvars, utilvars>>

\* The rest of parse: the stream over the tokens and the element loop.
Parse ==
  /\ pc = "parse"
  /\ result' = parse(tokens)
  /\ document' = IF result'.ok THEN result'.value ELSE <<>>
  /\ pc' = IF result'.ok THEN "generate" ELSE "failed"
  /\ UNCHANGED <<input, position, tokens, mode, writer, genvars, utilvars>>

\* Generator::new(m) and generate for each element of the document in turn,
\* into one writer, as the tests and examples do after a parse.
Generate(m) ==
  /\ pc = "generate"
  /\ mode' = m
  /\ LET r == generate_elements(Generator(m, NoFormatters), writer, document, m)
     IN /\ writer' = r.writer
        /\ outcome' = Returned(Len(document), r)
        /\ pc' = IF r.ok THEN "done" ELSE "gen_failed"
  /\ before' = writer
  /\ UNCHANGED <<input, position, tokens, result, document, formatters, registered,
                 utilvars>>

Next ==
  \/ TokenizeStep
  \/ TokenizeEof
  \/ Parse
  \/ \E m \in ParseModes : Generate(m)

Spec == Init /\ [][Next]_vars

(***************************************************************************)
(* Conditional formatting (src/src/conditional.rs, src/src/ast.rs).  The   *)
(* element type conditional.rs names TgElement is the Element of ast.rs.   *)
(***************************************************************************)
MaxValueLen == 2
MaxRules == 2

\* enum Condition.  A threshold is an integer here.
GreaterThan(threshold) == [type |-> "GreaterThan", threshold |-> threshold, text |-> <<>>]
LessThan(threshold) == [type |-> "LessThan", threshold |-> threshold, text |-> <<>>]
Equals(expected) == [type |-> "Equals", threshold |-> 0, text |-> expected]
Contains(substring) == [type |-> "Contains", threshold |-> 0, text |-> substring]
Regex(pattern) == [type |-> "Regex", threshold |-> 0, text |-> pattern]
CustomCondition(s) == [type |-> "Custom", threshold |-> 0, text |-> s]

\* struct ConditionalFormat: format is a function pointer, here the name of
\* the function it points to.
ConditionalFormat(condition, fmt) == [condition |-> condition, format |-> fmt]

\* str::starts_with and str::contains.
starts_with(s, prefix) ==
  Len(prefix) <= Len(s) /\ \A i \in 1..Len(prefix) : s[i] = prefix[i]

RECURSIVE contains(_, _)
contains(s, substring) ==
  IF starts_with(s, substring) THEN TRUE
  ELSE IF s = <<>> THEN FALSE
  ELSE contains(Tail(s), substring)

\* Regex::new on the patterns the model draws: literal characters, with an
\* optional leading "^"; a "(" that nothing closes is a syntax error (<<>>).
regex_new(pattern) ==
  IF \E i \in 1..Len(pattern) : pattern[i] = LPAREN
  THEN <<>>
  ELSE IF pattern # <<>> /\ Head(pattern) = "^"
  THEN <<[anchored |-> TRUE, literal |-> Tail(pattern)]>>
  ELSE <<[anchored |-> FALSE, literal |-> pattern]>>

\* Regex::is_match.
is_match(re, value) ==
  IF re.anchored THEN starts_with(value, re.literal) ELSE contains(value, re.literal)

\* A GreaterThan that also holds at the threshold.
evaluate_or_equal(self, value) ==
  CASE self.type = "GreaterThan" ->
         LET v == parse_f64(value) IN IF v = <<>> THEN FALSE ELSE v[1] >= self.threshold
    [] self.type = "LessThan" ->
         LET v == parse_f64(value) IN IF v = <<>> THEN FALSE ELSE v[1] < self.threshold
    [] self.type = "Equals" -> value = self.text
    [] self.type = "Contains" -> contains(value, self.text)
    [] self.type = "Regex" ->
         LET re == regex_new(self.text) IN IF re = <<>> THEN FALSE ELSE is_match(re[1], value)
    [] self.type = "Custom" -> FALSE

\* Condition::evaluate.
evaluate(self, value) ==
  CASE self.type = "GreaterThan" ->
         LET v == parse_f64(value) IN IF v = <<>> THEN FALSE ELSE v[1] > self.threshold
    [] self.type = "LessThan" ->
         LET v == parse_f64(value) IN IF v = <<>> THEN FALSE ELSE v[1] < self.threshold
    [] self.type = "Equals" -> value = self.text
    [] self.type = "Contains" -> contains(value, self.text)
    [] self.type = "Regex" ->
         LET re == regex_new(self.text) IN IF re = <<>> THEN FALSE ELSE is_match(re[1], value)
    [] self.type = "Custom" -> FALSE

\* The functions a rule's format points to: one that wraps the elements in
\* a Bold, one that returns no element, one that appends "!" to the text of
\* the first element and one that puts a Text "x" before the elements.
Formats == {"bold", "none", "mark", "prepend"}

call(fmt, elements) ==
  CASE fmt = "bold" -> <<Bold(elements)>>
    [] fmt = "none" -> <<>>
    [] fmt = "mark" ->
         [i \in 1..Len(elements) |->
            IF i = 1 /\ elements[i].kind = "Text"
            THEN Text(elements[i].text \o <<"!">>)
            ELSE elements[i]]
    [] fmt = "prepend" -> <<Text(<<"x">>)>> \o elements

\* The for loop of apply_conditional_format from rule i (1-based) on: <<>>
\* when the loop ends without a return.
RECURSIVE first_match(_, _, _, _)
first_match(element, text, rules_, i) ==
  IF i > Len(rules_) THEN <<>>
  ELSE IF evaluate(rules_[i].condition, text)
  THEN LET out == call(rules_[i].format, <<element>>)
       IN <<IF out = <<>> THEN element ELSE out[1]>>
  ELSE first_match(element, text, rules_, i + 1)

\* An apply_conditional_format that tries the first rule only.
apply_conditional_format_first_rule_only(element, rules_) ==
  IF element.kind = "Text" /\ rules_ # <<>> /\ evaluate(rules_[1].condition, element.text)
  THEN LET out == call(rules_[1].format, <<element>>)
       IN IF out = <<>> THEN element ELSE out[1]
  ELSE element

apply_conditional_format(element, rules_) ==
  IF element.kind = "Text"
  THEN LET r == first_match(element, element.text, rules_, 1)
       IN IF r = <<>> THEN element ELSE r[1]
  ELSE element

(***************************************************************************)
(* PhoneFormatter::parse (src/src/formatter.rs)                            *)
(***************************************************************************)
MaxPhoneLen == 3

\* A phone class without whitespace.
is_phone_char_no_space(ch) ==
  (\E d \in 0..9 : Digits[d + 1] = ch) \/ ch \in {"-", LPAREN, RPAREN}

\* The character class [\d\s\-\(\)] of the phone pattern.
is_phone_char(ch) ==
  (\E d \in 0..9 : Digits[d + 1] = ch) \/ ch \in {" ", NEWLINE} \/ ch \in {"-", LPAREN, RPAREN}

\* The greedy [..]+ from position pos (0-based): how many characters it takes.
RECURSIVE class_run(_, _)
class_run(inp, pos) ==
  IF pos < Len(inp) /\ is_phone_char(inp[pos + 1]) THEN 1 + class_run(inp, pos + 1) ELSE 0

\* The match of ^\+?[..]+ with the optional plus taking `plus` characters.
phone_match(inp, plus) ==
  LET n == class_run(inp, plus)
  IN IF n >= 1 THEN <<[matched |-> SubSeq(inp, 1, plus + n), len |-> plus + n]>> ELSE <<>>

\* PhoneFormatter::parse: the pattern is anchored at the start; the greedy
\* optional plus is tried first, then the match without it.  None is <<>>.
PhoneFormatter_parse(inp) ==
  IF inp # <<>> /\ Head(inp) = "+" /\ phone_match(inp, 1) # <<>>
  THEN phone_match(inp, 1)
  ELSE phone_match(inp, 0)

(***************************************************************************)
(* A generator with a registry, and the trees a caller hands to it         *)
(***************************************************************************)
PhoneName == <<"p", "h", "o", "n", "e">>
UsdName == <<"u", "s", "d">>

\* The formatters a caller registers: the built-in phone formatter and two
\* currency formatters of the same code.
Formatters ==
  {PhoneFormatter, CurrencyFormatter(<<"$">>, UsdName), CurrencyFormatter(<<"E">>, UsdName)}

\* Text payloads with a character each dialect reserves.
PayloadAlphabet == {"a", "!", AMP}

Payloads == Strings(PayloadAlphabet, MaxPayloadLen) \ {<<>>}

CustomValues == {<<"1">>, <<LT, "!">>}

Leaves ==
  {Text(p) : p \in Payloads}
    \union {Custom(n, v) : n \in {PhoneName, UsdName}, v \in CustomValues}

\* Children of a container: a leaf alone, after a Text and before a Text.
Kids ==
  {<<l>> : l \in Leaves} \union {<<Text(<<"a">>), l>> : l \in Leaves}
    \union {<<l, Text(<<"a">>)>> : l \in Leaves}

Positions ==
  {"Top", "Bold", "Link", "Quote", "Group", "ListItem", "NestedItem", "TableCell"}

\* The document that has the children kids at the position pos.
Place(pos, kids) ==
  CASE pos = "Top" -> kids
    [] pos = "Bold" -> <<Bold(kids)>>
    [] pos = "Link" -> <<Link(kids, <<"u">>)>>
    [] pos = "Quote" -> <<Quote(kids)>>
    [] pos = "Group" -> <<Group(kids)>>
    [] pos = "ListItem" -> <<List(ListNode(Bullet, <<ListItem(kids, <<>>)>>))>>
    [] pos = "NestedItem" ->
         <<List(ListNode(Bullet,
             <<ListItem(<<Text(<<"a">>)>>,
                        <<ListNode(Bullet, <<ListItem(kids, <<>>)>>)>>)>>))>>
    [] pos = "TableCell" -> <<Table(TableNode(<<TableCell(kids, "Left")>>, <<>>, "Ascii"))>>

CodeAlphabet == {"a", BACKSLASH, BACKTICK, "!", LT}

CodeDocuments ==
  {<<Code(c)>> : c \in Strings(CodeAlphabet, MaxCodeLen)}
    \union {<<Pre(c, l)>> : c \in Strings(CodeAlphabet, MaxCodeLen), l \in {<<>>, <<<<"x">>>>}}

\* The same documents with the children held by a Group at that position.
GroupedTrees == {Place(pos, <<Group(kids)>>) : pos \in Positions, kids \in Kids}

\* Tables of one header cell and one row that carry a rule list: the rule's
\* condition holds for the text of one cell, of both or of none.
RuledTables ==
  {<<Table([TableNode(<<TableCell(<<Text(h)>>, "Left")>>,
                      <<TableRow(<<TableCell(<<Text(v)>>, "Left")>>)>>, style)
              EXCEPT !.rules = <<ConditionalFormat(c, f)>>])>> :
     h \in {<<"a">>, <<"2">>}, v \in {<<"a">>, <<"2">>},
     c \in {Contains(<<"a">>), GreaterThan(1), CustomCondition(<<"a">>)},
     f \in {"mark", "prepend"}, style \in TableStyles}

Trees ==
  {Place(pos, kids) : pos \in Positions, kids \in Kids} \union GroupedTrees
    \union CodeDocuments \union RuledTables

\* The caller has built a tree and is about to construct a generator.
InitGen ==
  /\ input = <<>>
  /\ position = 0
  /\ tokens = <<>>
  /\ pc = "new"
  /\ result = NoResult
  /\ document \in Trees
  /\ mode = "None"
  /\ writer = <<>>
  /\ formatters = NoFormatters
  /\ registered = <<>>
  /\ before = <<>>
  /\ outcome = NoOutcome
  /\ rules = <<>>
  /\ callers = <<>>

\* Generator::new(m).
New(m) ==
  /\ pc = "new"
  /\ mode' = m
  /\ formatters' = Generator(m, NoFormatters).formatters
  /\ pc' = "ready"
  /\ UNCHANGED <<input, position, tokens, result, document, writer, registered, before,
                 outcome, utilvars>>

\* generator.register_formatter(Box::new(f)).
RegisterFormatter(f) ==
  /\ pc = "ready"
  /\ Len(registered) < MaxRegistrations
  /\ formatters' = register_formatter(Generator(mode, formatters), f).formatters
  /\ registered' = Append(registered, f)
  /\ UNCHANGED <<pipevars, before, outcome, utilvars>>

\* generator.generate(&mut writer, element) for the next element of the
\* document; the caller stops at the first error.
GenerateCall ==
  /\ pc = "ready"
  /\ outcome.calls < Len(document)
  /\ LET r == generate(Generator(mode, formatters), writer, document[outcome.calls + 1])
     IN /\ writer' = r.writer
        /\ outcome' = Returned(outcome.calls + 1, r)
        /\ pc' = IF ~r.ok THEN "gen_failed"
                 ELSE IF outcome.calls + 1 = Len(document) THEN "done" ELSE "ready"
  /\ before' = writer
  /\ UNCHANGED <<input, position, tokens, result, document, mode, formatters, registered,
                 utilvars>>

NextGen ==
  \/ \E m \in ParseModes : New(m)
  \/ \E f \in Formatters : RegisterFormatter(f)
  \/ GenerateCall

GenSpec == InitGen /\ [][NextGen]_vars

\* parse(input) on the short inputs over FairAlphabet only.
InitLex ==
  /\ input \in Strings(FairAlphabet, MaxFairLen)
  /\ position = 0
  /\ tokens = <<>>
  /\ pc = "tokenize"
  /\ result = NoResult
  /\ document = <<>>
  /\ mode = "None"
  /\ writer = <<>>
  /\ formatters = NoFormatters
  /\ registered = <<>>
  /\ before = <<>>
  /\ outcome = NoOutcome
  /\ rules = <<>>
  /\ callers = <<>>

\* The pipeline is sequential code: it keeps running while it has a step to take.
FairSpec == InitLex /\ [][Next]_vars /\ WF_vars(Next)

\* parse has returned.
Parsed == pc \in {"generate", "done", "failed"} /\ tokens # <<>>

(***************************************************************************)
(* Lexer properties                                                         *)
(***************************************************************************)
\* The source form of a token.
SourceForm(t) ==
  CASE t.type = "Text" -> t.val
    [] t.type = "Escape" -> <<BACKSLASH>> \o t.val
    [] t.type = "Mention" -> <<AT>> \o t.val
    [] t.type = "Hashtag" -> <<HASH>> \o t.val
    [] t.type = "Command" -> <<SLASH>> \o t.val
    [] t.type = "Star" -> <<STAR>>
    [] t.type = "Underscore" -> <<UNDERSCORE>>
    [] t.type = "Backtick" -> <<BACKTICK>>
    [] t.type = "Tilde" -> <<TILDE>>
    [] t.type = "Pipe" -> <<PIPE>>
    [] t.type = "At" -> <<AT>>
    [] t.type = "Hash" -> <<HASH>>
    [] t.type = "Slash" -> <<SLASH>>
    [] t.type = "LeftParen" -> <<LPAREN>>
    [] t.type = "RightParen" -> <<RPAREN>>
    [] t.type = "LeftBracket" -> <<LBRACKET>>
    [] t.type = "RightBracket" -> <<RBRACKET>>
    [] t.type = "LeftBrace" -> <<LBRACE>>
    [] t.type = "RightBrace" -> <<RBRACE>>
    [] t.type = "LineBreak" -> <<NEWLINE>>
    [] t.type = "Eof" -> <<>>

\* The concatenation of a sequence of strings.
RECURSIVE Concat(_)
Concat(ss) == IF ss = <<>> THEN <<>> ELSE Head(ss) \o Concat(Tail(ss))

SourceOf(toks) == Concat([i \in 1..Len(toks) |-> SourceForm(toks[i])])

TypesOf(toks) == {toks[i].type : i \in 1..Len(toks)}

\* C8: tokenization is lossless.  At every point of the scan the tokens
\* produced so far, written back in their source form and concatenated, are
\* exactly the characters of the input before the lexer's position, and once
\* tokenize has returned they are the whole input.
C8_Lossless ==
  /\ pc = "tokenize" => SourceOf(tokens) = SubSeq(input, 1, position)
  /\ pc # "tokenize" /\ tokens # <<>> => SourceOf(tokens) = input

\* An input with an escape and a mention named by an underscore has been
\* tokenized.
C8_Witness ==
  /\ pc = "parse"
  /\ {"Escape", "Mention"} \subseteq TypesOf(tokens)
  /\ \E i \in 1..Len(tokens) :
       tokens[i].type = "Mention" /\ tokens[i].val = <<UNDERSCORE>>

\* C9: tokenize terminates and ends the token sequence with the only Eof.
\* Every iteration of the loop moves the position forward by at least one
\* character and never past the end of the input, so the loop is left after
\* at most Len(input) iterations; while the loop runs no Eof has been pushed;
\* once tokenize has returned, Eof is the last token and occurs nowhere else.
C9_Terminates ==
  /\ [][pc = "tokenize" =>
          \/ pc' = "tokenize" /\ position' > position /\ position' <= Len(input)
                              /\ Len(tokens') = Len(tokens) + 1
          \/ pc' = "parse" /\ position = Len(input)]_vars
  /\ [](pc = "tokenize" => "Eof" \notin TypesOf(tokens) /\ Len(tokens) <= position)
  /\ [](pc # "tokenize" /\ tokens # <<>> =>
          /\ tokens[Len(tokens)].type = "Eof"
          /\ \A i \in 1..(Len(tokens) - 1) : tokens[i].type # "Eof")
  /\ <>(pc # "tokenize")

\* tokenize has returned on a two-character input that one next_token call
\* consumed whole.
C9_Witness ==
  /\ pc = "parse"
  /\ Len(input) = 2
  /\ Len(tokens) = 2
  /\ tokens[1].type \in {"Mention", "Escape", "Text"}
  /\ tokens[2].type = "Eof"

(***************************************************************************)
(* Escaping and plain text                                                  *)
(***************************************************************************)
\* The escaper as a character-by-character substitution.
EscapedChar(c, m) ==
  IF m = "MarkdownV2"
  THEN IF c \in {UNDERSCORE, STAR, LBRACKET, RBRACKET, LPAREN, RPAREN, TILDE, BACKTICK,
                 GT, HASH, "+", "-", "=", PIPE, LBRACE, RBRACE, ".", "!"}
       THEN <<BACKSLASH, c>> ELSE <<c>>
  ELSE CASE c = AMP -> <<AMP, "a", "m", "p", ";">>
         [] c = LT -> <<AMP, "l", "t", ";">>
         [] c = GT -> <<AMP, "g", "t", ";">>
         [] c = DQUOTE -> <<AMP, "q", "u", "o", "t", ";">>
         [] OTHER -> <<c>>

EscapedCharByChar(s, m) == Concat([i \in 1..Len(s) |-> EscapedChar(s[i], m)])

\* The generator was handed one Text node built by the caller.
BuiltText == tokens = <<>> /\ Len(document) = 1 /\ document[1].kind = "Text"

\* C10: the text escaper works character by character.  The rendering of a
\* Text node is the concatenation, over the characters of its payload in
\* order, of backslash + character for the eighteen MarkdownV2 reserved
\* characters, of the entity for & < > and the double quote in Html, and of the
\* character itself otherwise; an & that an Html replacement produced is not
\* escaped again.
C10_EscapeCharByChar ==
  pc = "done" /\ BuiltText => writer = EscapedCharByChar(document[1].text, mode)

\* A payload with < before & has been rendered in Html, and a payload with a
\* reserved and an unreserved character in MarkdownV2.
C10_Witness ==
  /\ pc = "done" /\ BuiltText
  /\ \/ mode = "Html" /\ document[1].text = <<LT, AMP>>
                      /\ writer = <<AMP, "l", "t", ";", AMP, "a", "m", "p", ";">>
     \/ mode = "MarkdownV2" /\ document[1].text = <<"!", "a">>
                            /\ writer = <<BACKSLASH, "!", "a">>

IsPlain(s) == \A i \in 1..Len(s) : s[i] \notin ReservedChars

\* C7: plain-text round trip.  For a non-empty input without a character
\* reserved by the lexer, parse succeeds with exactly [Text(input)], and the
\* rendering of that result in either dialect is the dialect's text escaper
\* applied to the input.
C7_PlainRoundTrip ==
  input # <<>> /\ IsPlain(input) =>
    /\ pc # "failed"
    /\ pc \in {"generate", "done"} => result.ok /\ result.value = <<Text(input)>>
    /\ pc = "done" => writer = escape_text(input, mode)

\* A plain text with a character reserved in the dialect has been parsed and
\* rendered, and the rendering differs from the input.
C7_Witness ==
  /\ pc = "done" /\ Len(input) >= 2 /\ IsPlain(input)
  /\ writer # input
  /\ result.value = <<Text(input)>>

(***************************************************************************)
(* Parser properties                                                        *)
(***************************************************************************)
\* The token type at 0-based index j, "None" past the end.
TypeAt(toks, j) == IF j < Len(toks) THEN toks[j + 1].type ELSE "None"

AnyLater(toks, from, type) == \E j \in from..(Len(toks) - 1) : TypeAt(toks, j) = type

PairLater(toks, from, type) ==
  \E j \in from..(Len(toks) - 1) : TypeAt(toks, j) = type /\ TypeAt(toks, j + 1) = type

TripleLater(toks, from, type) ==
  \E j \in from..(Len(toks) - 1) :
    TypeAt(toks, j) = type /\ TypeAt(toks, j + 1) = type /\ TypeAt(toks, j + 2) = type

\* The closer of an opened construct occurs somewhere after its opener.
CloserLater(toks, o) ==
  CASE o.kind = "Bold" -> PairLater(toks, o.at + 2, "Star")
    [] o.kind = "ItalicStar" -> AnyLater(toks, o.at + 1, "Star")
    [] o.kind = "Underline" -> PairLater(toks, o.at + 2, "Underscore")
    [] o.kind = "ItalicUnderscore" -> AnyLater(toks, o.at + 1, "Underscore")
    [] o.kind = "Strikethrough" -> PairLater(toks, o.at + 2, "Tilde")
    [] o.kind = "Spoiler" -> AnyLater(toks, o.at + 1, "Tilde")
    [] o.kind = "Code" -> AnyLater(toks, o.at + 1, "Backtick")
    [] o.kind = "Pre" -> TripleLater(toks, o.at + 3, "Backtick")
    [] o.kind = "Link" -> AnyLater(toks, o.at + 1, "RightBracket")
                          /\ AnyLater(toks, o.at + 1, "RightParen")

Unclosed == {o \in result.opened : ~CloserLater(tokens, o)}

\* C1: an unterminated construct is a Parse error.  Whenever the parser has
\* opened a bold, italic, underline, strikethrough, spoiler, code, pre or link
\* construct and no matching closer token follows its opener in the token
\* stream, parse returns Err(Error::Parse); and parse never fails with any
\* other variant.
C1_UnclosedIsParseError ==
  Parsed =>
    /\ Unclosed # {} => ~result.ok /\ result.err = "Parse"
    /\ ~result.ok => result.err = "Parse"

\* parse has failed on an input in which a construct was opened inside
\* another one and neither is closed.
C1_Witness ==
  /\ pc = "failed"
  /\ Cardinality(Unclosed) >= 2
  /\ result.err = "Parse"

\* inp is d, a non-empty plain text, d.
IsWrapOf(inp, d) ==
  /\ Len(inp) > 2 * Len(d)
  /\ SubSeq(inp, 1, Len(d)) = d
  /\ SubSeq(inp, Len(inp) - Len(d) + 1, Len(inp)) = d
  /\ IsPlain(SubSeq(inp, Len(d) + 1, Len(inp) - Len(d)))

Inner(inp, d) == SubSeq(inp, Len(d) + 1, Len(inp) - Len(d))

\* C6: strong/weak disambiguation.  A non-empty plain text t between matching
\* delimiters parses to one node with children [Text(t)]: Bold for **,
\* Italic for * and for _, Underline for __, Strikethrough for ~~ and
\* Spoiler for ~.
C6_StrongWeak ==
  \A d \in Delimiters :
    Parsed /\ IsWrapOf(input, d) =>
      result.ok /\ result.value = <<Styled(KindOf(d), <<Text(Inner(input, d))>>)>>

\* An underline span "__t__" has been parsed: the doubled underscore selected
\* the strong variant.
C6_Witness ==
  /\ Parsed /\ IsWrapOf(input, <<UNDERSCORE, UNDERSCORE>>)
  /\ result.ok /\ result.value[1].kind = "Underline"

FirstIndex(inp, ch) ==
  CHOOSE k \in 1..Len(inp) : inp[k] = ch /\ \A j \in 1..(k - 1) : inp[j] # ch

\* The characters a URL of the round-trip claim is built from: everything but
\* the parentheses, the backtick, the backslash and the newline.
IsUrl(u) ==
  \A i \in 1..Len(u) : u[i] \notin {LPAREN, RPAREN, BACKTICK, BACKSLASH, NEWLINE}

\* inp is [T](U) with T a plain text and U a URL.
IsLinkForm(inp) ==
  /\ Len(inp) >= 4
  /\ inp[1] = LBRACKET
  /\ inp[Len(inp)] = RPAREN
  /\ \E k \in 2..(Len(inp) - 2) : inp[k] = RBRACKET
  /\ LET k == FirstIndex(inp, RBRACKET)
     IN /\ k <= Len(inp) - 2
        /\ IsPlain(SubSeq(inp, 2, k - 1))
        /\ inp[k + 1] = LPAREN
        /\ IsUrl(SubSeq(inp, k + 2, Len(inp) - 1))

LinkText(inp) == SubSeq(inp, 2, FirstIndex(inp, RBRACKET) - 1)

LinkUrl(inp) == SubSeq(inp, FirstIndex(inp, RBRACKET) + 2, Len(inp) - 1)

\* C5: link URL round trip.  For an input [T](U), T plain text and U built
\* from plain characters and / @ # _ * ~ | [ ] { }, parse yields exactly one
\* node, a Link whose url is U character for character and whose text is T.
C5_LinkUrlRoundTrip ==
  Parsed /\ IsLinkForm(input) =>
    /\ result.ok
    /\ Len(result.value) = 1
    /\ result.value[1].kind = "Link"
    /\ result.value[1].url = LinkUrl(input)
    /\ result.value[1].children =
         (IF LinkText(input) = <<>> THEN <<>> ELSE <<Text(LinkText(input))>>)

\* A link has been parsed whose URL was lexed into a command, a mention or a
\* hashtag token and some punctuation.
C5_Witness ==
  /\ Parsed /\ IsLinkForm(input)
  /\ TypesOf(tokens) \intersect {"Command", "Mention", "Hashtag"} # {}
  /\ TypesOf(tokens) \intersect {"Star", "Underscore", "Tilde", "LeftBrace"} # {}
  /\ result.ok /\ result.value[1].url = LinkUrl(input)

\* C2 as claimed: nested styles compose for every pair of variants.  For any
\* two different delimiters o and i, the input o a i b i c o parses to the
\* node of o with children [Text a, node of i with children [Text b], Text c].
C2_NestedCompose ==
  \A o \in Delimiters, i \in Delimiters :
    Parsed /\ o # i /\ input = Nest(o, i) =>
      /\ result.ok
      /\ result.value =
           <<Styled(KindOf(o), <<Text(<<"a">>), Styled(KindOf(i), <<Text(<<"b">>)>>),
                                 Text(<<"c">>)>>)>>

\* inp is a backtick, a text without backtick, a backtick.
IsCodeForm(inp) ==
  /\ Len(inp) >= 2
  /\ inp[1] = BACKTICK
  /\ inp[Len(inp)] = BACKTICK
  /\ \A i \in 2..(Len(inp) - 1) : inp[i] # BACKTICK

\* C3 as claimed: inline code is captured verbatim.  For every X without a
\* backtick, backtick X backtick parses to exactly [Code(X)].
C3_CodeVerbatim ==
  Parsed /\ IsCodeForm(input) =>
    result.ok /\ result.value = <<Code(SubSeq(input, 2, Len(input) - 1))>>

\* inp is ```L newline B``` with L a non-empty plain text and B without a
\* backtick.
IsPreForm(inp) ==
  /\ Len(inp) >= 8
  /\ SubSeq(inp, 1, 3) = Fence
  /\ SubSeq(inp, Len(inp) - 2, Len(inp)) = Fence
  /\ \E k \in 5..(Len(inp) - 3) : inp[k] = NEWLINE
  /\ LET k == FirstIndex(inp, NEWLINE)
     IN /\ k >= 5 /\ k <= Len(inp) - 3
        /\ IsPlain(SubSeq(inp, 4, k - 1))
        /\ \A i \in (k + 1)..(Len(inp) - 3) : inp[i] # BACKTICK

PreLanguage(inp) == SubSeq(inp, 4, FirstIndex(inp, NEWLINE) - 1)

PreBody(inp) == SubSeq(inp, FirstIndex(inp, NEWLINE) + 1, Len(inp) - 3)

\* C4 as claimed: the code of a pre block is exactly the source text between
\* the language line and the three closing backticks.
C4_PreVerbatim ==
  Parsed /\ IsPreForm(input) =>
    result.ok /\ result.value = <<Pre(PreBody(input), <<PreLanguage(input)>>)>>

(***************************************************************************)
(* Generator properties: escaping                                           *)
(***************************************************************************)
\* All the Text payloads of a tree, concatenated in document order.
RECURSIVE TextsOfElements(_)
RECURSIVE TextsOfList(_)

TextsOfCells(cells) ==
  Concat([i \in 1..Len(cells) |-> TextsOfElements(cells[i].content)])

TextsOfElement(e) ==
  CASE e.kind = "Text" -> e.text
    [] e.kind \in StyledKinds \union {"Link", "Quote", "Group"} -> TextsOfElements(e.children)
    [] e.kind = "List" -> TextsOfList(e.list)
    [] e.kind = "Table" ->
         TextsOfCells(e.table.headers)
           \o Concat([r \in 1..Len(e.table.rows) |-> TextsOfCells(e.table.rows[r].cells)])
    [] OTHER -> <<>>

TextsOfElements(es) == Concat([i \in 1..Len(es) |-> TextsOfElement(es[i])])

TextsOfList(l) ==
  Concat([i \in 1..Len(l.items) |->
            TextsOfElements(l.items[i].content)
              \o (IF l.items[i].nested = <<>> THEN <<>> ELSE TextsOfList(l.items[i].nested[1]))])

\* All the nodes of a tree, and their kinds.
RECURSIVE NodesOfElements(_)
RECURSIVE NodesOfList(_)

NodesOfCells(cells) == UNION {NodesOfElements(cells[i].content) : i \in 1..Len(cells)}

NodesOfElement(e) ==
  {e} \union
    (CASE e.kind \in StyledKinds \union {"Link", "Quote", "Group"} -> NodesOfElements(e.children)
       [] e.kind = "List" -> NodesOfList(e.list)
       [] e.kind = "Table" ->
            UNION {NodesOfCells(all_rows(e.table)[r]) : r \in 1..Len(all_rows(e.table))}
       [] OTHER -> {})

NodesOfElements(es) == UNION {NodesOfElement(es[i]) : i \in 1..Len(es)}

NodesOfList(l) ==
  UNION {NodesOfElements(l.items[i].content)
           \union (IF l.items[i].nested = <<>> THEN {} ELSE NodesOfList(l.items[i].nested[1])) :
         i \in 1..Len(l.items)}

KindsOfElements(es) == {n.kind : n \in NodesOfElements(es)}

\* How often the character ch occurs in s, and where the string sub does.
Count(s, ch) == Cardinality({i \in 1..Len(s) : s[i] = ch})

OccursAt(s, sub, i) == i + Len(sub) - 1 <= Len(s) /\ SubSeq(s, i, i + Len(sub) - 1) = sub

\* The generate calls have all returned Ok for a tree of Text and containers.
RenderedTexts ==
  /\ pc = "done"
  /\ tokens = <<>>
  /\ outcome.ok
  /\ KindsOfElements(document) \subseteq
       StyledKinds \union {"Text", "Link", "Quote", "Group", "List", "Table"}

\* C11: every Text payload reaches the output through the dialect's text
\* escaper exactly once, wherever it sits in the tree.  The payloads of the
\* trees hold "!", reserved in MarkdownV2, and the ampersand, reserved in
\* Html, and no wrapper of these trees writes either: so in MarkdownV2 every
\* "!" of the output follows a backslash and there are as many backslashes
\* and as many "!" as the payloads have "!", and in Html every ampersand of
\* the output starts "&amp;" and never "&amp;amp;", one for each of the
\* payloads' ampersands.
C11_TextEscapedOnce ==
  RenderedTexts =>
    LET texts == TextsOfElements(document)
    IN IF mode = "MarkdownV2"
       THEN /\ Count(writer, "!") = Count(texts, "!")
            /\ Count(writer, BACKSLASH) = Count(texts, "!")
            /\ \A i \in 1..Len(writer) :
                 writer[i] = "!" => i > 1 /\ writer[i - 1] = BACKSLASH
       ELSE /\ Count(writer, AMP) = Count(texts, AMP)
            /\ \A i \in 1..Len(writer) :
                 writer[i] = AMP =>
                   /\ OccursAt(writer, <<AMP, "a", "m", "p", ";">>, i)
                   /\ ~OccursAt(writer, <<AMP, "a", "m", "p", ";", "a", "m", "p", ";">>, i)

\* The generate call has returned Ok for a document that is one Code or Pre.
RenderedCode ==
  /\ pc = "done"
  /\ tokens = <<>>
  /\ outcome.ok
  /\ Len(document) = 1
  /\ document[1].kind \in {"Code", "Pre"}

\* What the output holds between the wrapper of the Code or Pre node.
CodeBody ==
  LET e == document[1]
      lang == IF e.kind = "Pre" /\ e.language # <<>> THEN e.language[1] ELSE <<>>
      open == CASE e.kind = "Code" /\ mode = "MarkdownV2" -> 1
                [] e.kind = "Code" /\ mode = "Html" -> 6
                [] e.kind = "Pre" /\ mode = "MarkdownV2" -> 3 + Len(lang) + 1
                [] e.kind = "Pre" /\ mode = "Html" ->
                     IF e.language = <<>> THEN 5 ELSE 5 + 22 + Len(escape_html(lang)) + 2
      close == CASE e.kind = "Code" /\ mode = "MarkdownV2" -> 1
                 [] e.kind = "Code" /\ mode = "Html" -> 7
                 [] e.kind = "Pre" /\ mode = "MarkdownV2" -> 4
                 [] e.kind = "Pre" /\ mode = "Html" -> IF e.language = <<>> THEN 6 ELSE 13
  IN SubSeq(writer, open + 1, Len(writer) - close)

\* The narrow escaping: a backslash before each backslash and each backtick,
\* every other character as it is.
NarrowEscaped(s) ==
  Concat([i \in 1..Len(s) |->
            IF s[i] \in {BACKSLASH, BACKTICK} THEN <<BACKSLASH, s[i]>> ELSE <<s[i]>>])

\* The payload holds a character the dialect's text escaper changes, and
\* neither a backslash nor a backtick.
HasProseOnly(s, m) ==
  /\ \E i \in 1..Len(s) : escape_text(<<s[i]>>, m) # <<s[i]>>
  /\ \A i \in 1..Len(s) : s[i] \notin {BACKSLASH, BACKTICK}

\* C12 as stated: in both dialects the content of Code and Pre is escaped by
\* the narrow escaper (backslash and fence character only), so characters
\* reserved for prose are unchanged, and on a payload holding such a
\* character (and no backslash or backtick) the body differs from what the
\* dialect's text escaper gives.
C12_CodeNarrowEscaper ==
  RenderedCode =>
    /\ CodeBody = NarrowEscaped(document[1].code)
    /\ HasProseOnly(document[1].code, mode) => CodeBody # escape_text(document[1].code, mode)

\* C12 amended: in MarkdownV2 the content of Code and Pre is escaped by the
\* narrow escaper and differs from the text escaper's output whenever the
\* payload holds a character reserved for prose and no backslash or
\* backtick; in Html it is escaped by
\* escape_html, character by character, which is what the Html text escaper
\* gives for the same payload.
C12_CodeEscaperPerDialect ==
  RenderedCode =>
    IF mode = "MarkdownV2"
    THEN /\ CodeBody = NarrowEscaped(document[1].code)
         /\ HasProseOnly(document[1].code, mode) =>
              CodeBody # escape_text(document[1].code, mode)
    ELSE /\ CodeBody = EscapedCharByChar(document[1].code, "Html")
         /\ CodeBody = escape_text(document[1].code, mode)

C12_Witness ==
  /\ RenderedCode
  /\ mode = "MarkdownV2"
  /\ document[1] = Code(<<BACKTICK, "!">>)
  /\ writer = <<BACKTICK, BACKSLASH, BACKTICK, "!", BACKTICK>>

(***************************************************************************)
(* Generator properties: custom formatters                                  *)
(***************************************************************************)
\* The element the last generate call was given.
LastElement == document[outcome.calls]

\* The caller has stopped calling generate, after at least one call: the
\* registry is the one the last call has seen.
Called == pc \in {"done", "gen_failed"} /\ tokens = <<>> /\ outcome.calls >= 1

\* The formatter names of the Custom nodes of a tree that the registry lacks.
UnknownNames(es, map) ==
  {n.formatter : n \in {c \in NodesOfElements(es) : c.kind = "Custom"
                                                     /\ get(map, c.formatter) = <<>>}}

\* C13: when the tree given to generate holds, at any position, a Custom
\* node whose formatter name the registry lacks, the call fails with
\* FormatterNotFound carrying such a name.
C13_UnknownFormatterFails ==
  (Called /\ UnknownNames(<<LastElement>>, formatters) # {}) =>
    /\ ~outcome.ok
    /\ outcome.err = "FormatterNotFound"
    /\ outcome.name \in UnknownNames(<<LastElement>>, formatters)

\* The last generate call has returned an error.
Failed == Called /\ ~outcome.ok

\* C14 as stated: when generate returns an error nothing has been emitted,
\* the writer holds exactly what it held before the call.
C14_ErrorEmitsNothing == Failed => writer = before

IsPrefix(p, s) == Len(p) <= Len(s) /\ SubSeq(s, 1, Len(p)) = p

\* The registry with a formatter added under every name the tree misses.
Completed(es, map) ==
  map \union {[key |-> n, value |-> CurrencyFormatter(<<"$">>, n)] : n \in UnknownNames(es, map)}

\* What the last call would have left in the writer with no name missing.
FullRendering ==
  generate(Generator(mode, Completed(<<LastElement>>, formatters)), before, LastElement).writer

\* C14 amended: generate writes into the caller's writer as it goes and
\* stops at the first failing node.  When it returns an error the writer
\* holds its former content followed by what was written before the failing
\* node, a prefix of what the call would have written with every formatter
\* registered, and nothing that comes after that node: Bold[Text a, Custom
\* unknown] leaves the opening marker and the escaped a, without the closing
\* marker.
C14_ErrorStopsAtFailingNode ==
  Failed =>
    /\ IsPrefix(before, writer)
    /\ IsPrefix(writer, FullRendering)
    /\ writer # FullRendering
    /\ (LastElement.kind = "Bold" /\ LastElement.children[1].kind = "Text"
          /\ Len(LastElement.children) = 2) =>
         writer = before \o (IF mode = "MarkdownV2" THEN <<STAR>> ELSE <<LT, "b", GT>>)
                         \o escape_text(LastElement.children[1].text, mode)

C14_Witness ==
  /\ Failed
  /\ mode = "MarkdownV2"
  /\ LastElement = Bold(<<Text(<<"a">>), Custom(PhoneName, <<"1">>)>>)
  /\ writer = <<STAR, "a">>
  /\ before = <<>>

\* The names registered so far, and the formatter last registered under n.
RegisteredNames == {formatter_name(registered[i]) : i \in 1..Len(registered)}

LastRegistered(n) ==
  registered[MaxOf({i \in 1..Len(registered) : formatter_name(registered[i]) = n})]

\* C15: after any sequence of register_formatter calls the registry holds
\* exactly one entry for each name registered, the formatter most recently
\* registered under it; a Custom node of that name is rendered by that
\* formatter and what the formatter returns is written as it is.
C15_LastRegistrationWins ==
  /\ {e.key : e \in formatters} = RegisteredNames
  /\ Cardinality(formatters) = Cardinality(RegisteredNames)
  /\ \A e \in formatters : e.value = LastRegistered(e.key)
  /\ (Called /\ LastElement.kind = "Custom" /\ LastElement.formatter \in RegisteredNames) =>
       /\ outcome.ok
       /\ writer = before \o format(LastRegistered(LastElement.formatter),
                                    LastElement.value, mode)

C15_Witness ==
  /\ Called
  /\ registered = <<CurrencyFormatter(<<"$">>, UsdName), CurrencyFormatter(<<"E">>, UsdName)>>
  /\ LastElement = Custom(UsdName, <<"1">>)
  /\ mode = "MarkdownV2"
  /\ writer = <<BACKTICK, "1", BACKSLASH, ".", "0", "0", " ", "E", BACKTICK>>

(***************************************************************************)
(* Generator properties: lists                                              *)
(***************************************************************************)
\* Generate has returned for a document that is one list.
RenderedList ==
  /\ pc = "done"
  /\ tokens = <<>>
  /\ Len(document) = 1
  /\ document[1].kind = "List"

\* The prefix the k-th item (1-based) of a list of the given style is to have.
ExpectedPrefix(style, k) ==
  CASE style.style = "Bullet" -> <<BULLET, " ">>
    [] style.style = "Numbered" -> <<Digits[k + 1], ".", " ">>
    [] style.style = "Custom" -> style.marker \o <<" ">>

\* The line of every item of a list at depth d, depth first: 2*d spaces, the
\* prefix, the item's text.
RECURSIVE ItemLines(_, _)
ItemLines(l, d) ==
  Concat([k \in 1..Len(l.items) |->
            <<[i \in 1..(2 * d) |-> " "] \o ExpectedPrefix(l.style, k)
                \o TextsOfElements(l.items[k].content)>>
              \o (IF l.items[k].nested = <<>> THEN <<>>
                  ELSE ItemLines(l.items[k].nested[1], d + 1))])

NotIndented(line) == line # <<>> /\ line[1] # " "

IsBlank(line) == \A i \in 1..Len(line) : line[i] = " "

\* C16: the rendering of a list, with or without nested lists, separates
\* consecutive items by exactly one newline, so it has no empty line, and
\* does not end with a newline; the top-level items carry the prefix of the
\* list's style: the bullet, the 1-based index and ". ", or the marker, each
\* followed by one space.
C16_ItemsJoinedBySingleNewline ==
  RenderedList =>
    /\ writer # <<>> => writer[Len(writer)] # NEWLINE
    /\ \A i \in 1..(Len(writer) - 1) : ~(writer[i] = NEWLINE /\ writer[i + 1] = NEWLINE)
    /\ \A i \in 1..Len(lines(writer)) : ~IsBlank(lines(writer)[i])
    /\ SelectSeq(lines(writer), NotIndented)
         = [k \in 1..Len(document[1].list.items) |->
              ExpectedPrefix(document[1].list.style, k)
                \o TextsOfElements(document[1].list.items[k].content)]

\* C17: the lines of the rendering of a list are the lines of its items,
\* depth first, one line for each item: the line of an item at depth d is
\* 2*d spaces, then the item's prefix and content; so an item with one
\* nested bullet item adds exactly one line, indented by two spaces.
C17_NestedIndentation ==
  RenderedList => lines(writer) = ItemLines(document[1].list, 0)

(***************************************************************************)
(* Generator properties: tables                                             *)
(***************************************************************************)
\* Generate has returned for a document that is one table.
RenderedTable ==
  /\ pc = "done"
  /\ tokens = <<>>
  /\ Len(document) = 1
  /\ document[1].kind = "Table"

TheTable == document[1].table

\* The header and the rows of a table, each as its sequence of cells.
CellRows(t) == <<t.headers>> \o [r \in 1..Len(t.rows) |-> t.rows[r].cells]

\* The summed lengths of the Text children of a cell.
RECURSIVE TextLength(_)
TextLength(content) ==
  IF content = <<>> THEN 0
  ELSE (IF Head(content).kind = "Text" THEN Len(Head(content).text) ELSE 0)
         + TextLength(Tail(content))

\* The width vector a table is to have: one entry for each column position
\* up to the longest row, the largest text length at that position.
ExpectedWidths(t) ==
  LET rows == CellRows(t)
      cols == CHOOSE n \in 0..(MaxCols + 1) :
                /\ \A r \in 1..Len(rows) : Len(rows[r]) <= n
                /\ \E r \in 1..Len(rows) : Len(rows[r]) = n
  IN [i \in 1..cols |->
        CHOOSE w \in 0..4 :
          /\ \A r \in 1..Len(rows) : i <= Len(rows[r]) => TextLength(rows[r][i].content) <= w
          /\ \/ w = 0
             \/ \E r \in 1..Len(rows) : i <= Len(rows[r]) /\ TextLength(rows[r][i].content) = w]

RECURSIVE Sum(_)
Sum(ws) == IF ws = <<>> THEN 0 ELSE Head(ws) + Sum(Tail(ws))

\* The lines of the rendering, and where the header line is among them.
TableLines == lines(writer)

Boxed == TheTable.style \in {"Unicode", "Ascii"}

HeaderLine == TableLines[IF Boxed THEN 3 ELSE 2]

\* The lines of the data rows.
RowLines ==
  LET first == CASE Boxed -> 5
                 [] TheTable.style = "Minimal" -> 4
                 [] TheTable.style = "Compact" -> 3
  IN [r \in 1..Len(TheTable.rows) |-> TableLines[first + r - 1]]

\* C18: the width vector of a table has one entry for each column position
\* up to the longest of header and rows, entry i being the largest summed
\* length of the Text children of a cell at position i (a missing cell and a
\* child that is not Text count 0); it is computed for ragged tables too,
\* and every style lays the table out with it: the header line is as wide
\* as its cells padded to these widths, and the top border of the boxed
\* styles spans width + 2 for every column.
C18_ColumnWidths ==
  RenderedTable =>
    LET ws == ExpectedWidths(TheTable)
        n == Len(TheTable.headers)
    IN /\ calculate_column_widths(all_rows(TheTable)) = ws
       /\ outcome.ok
       /\ Len(HeaderLine) = (n + 1) + Sum([i \in 1..n |-> ws[i] + 2])
       /\ Boxed =>
            Len(TableLines[2])
              = 2 + Sum([i \in 1..Len(ws) |-> ws[i] + 2])
                  + (IF Len(ws) > 0 THEN Len(ws) - 1 ELSE 0)

C18_Witness ==
  /\ RenderedTable
  /\ TheTable.style = "Minimal"
  /\ Len(TheTable.headers) = 1
  /\ Len(TheTable.rows) = 2
  /\ Len(TheTable.rows[1].cells) = 2
  /\ calculate_column_widths(all_rows(TheTable)) = <<1, 2>>

\* C19: for any table, ragged or not, and each of the four styles, the
\* header line and the line of every data row have the same width.
C19_RowsSameWidth ==
  RenderedTable =>
    \A r \in 1..Len(RowLines) : Len(RowLines[r]) = Len(HeaderLine)

\* Header and rows have the same number of cells, at least one.
Rectangular(t) ==
  /\ Len(t.headers) >= 1
  /\ \A r \in 1..Len(t.rows) : Len(t.rows[r].cells) = Len(t.headers)

\* C20: for a rectangular table with at least one column, in each style all
\* the lines between the opening and the closing fence have the same width:
\* the borders of the boxed styles match the row lines, and the dash line of
\* Minimal matches the header line.
C20_LinesSameWidth ==
  (RenderedTable /\ Rectangular(TheTable)) =>
    \A i, j \in 2..(Len(TableLines) - 1) : Len(TableLines[i]) = Len(TableLines[j])


(***************************************************************************)
(* C21: a Group is a transparent splice                                    *)
(***************************************************************************)
\* The tree with every Group replaced, in the child sequence that holds it,
\* by its own (spliced) children.
RECURSIVE SpliceElements(_)
RECURSIVE SpliceList(_)

SpliceCells(cells) ==
  [i \in 1..Len(cells) |-> [cells[i] EXCEPT !.content = SpliceElements(@)]]

SpliceElement(e) ==
  CASE e.kind = "Group" -> SpliceElements(e.children)
    [] e.kind \in StyledKinds \union {"Link", "Quote"} ->
         <<[e EXCEPT !.children = SpliceElements(@)]>>
    [] e.kind = "List" -> <<List(SpliceList(e.list))>>
    [] e.kind = "Table" ->
         <<Table([e.table EXCEPT
                    !.headers = SpliceCells(@),
                    !.rows = [r \in 1..Len(@) |-> TableRow(SpliceCells(@[r].cells))]])>>
    [] OTHER -> <<e>>

SpliceElements(es) == Concat([i \in 1..Len(es) |-> SpliceElement(es[i])])

SpliceList(l) ==
  [l EXCEPT !.items =
     [i \in 1..Len(@) |->
        ListItem(SpliceElements(@[i].content),
                 IF @[i].nested = <<>> THEN <<>> ELSE <<SpliceList(@[i].nested[1])>>)]]

\* The generate calls have all returned Ok for a tree that holds a Group.
RenderedGroup ==
  /\ pc = "done"
  /\ tokens = <<>>
  /\ outcome.ok
  /\ "Group" \in KindsOfElements(document)

\* What the generator writes for the elements es, one generate call each.
RenderingOf(es) == generate_elements(Generator(mode, formatters), <<>>, es, mode).writer

\* C21: the output for a tree that holds a Group, at the top, in a styled
\* span, a link, a quote, a list item, a table cell or another Group, is the
\* output for the tree with the Group replaced by its children, in both
\* dialects.
C21_GroupIsTransparent ==
  RenderedGroup => writer = RenderingOf(SpliceElements(document))


(***************************************************************************)
(* The condition evaluator and the phone parser called on their own        *)
(***************************************************************************)
ValueAlphabet == {"1", "2", "a", "-"}

Values == Strings(ValueAlphabet, MaxValueLen)

Thresholds == {-1, 1, 12}

Patterns == {<<>>, <<"a">>, <<"^", "1">>, <<LPAREN>>, <<"1", LPAREN>>}

Conditions ==
  {GreaterThan(t) : t \in Thresholds} \union {LessThan(t) : t \in Thresholds}
    \union {Equals(s) : s \in {<<>>, <<"a">>, <<"1", "2">>}}
    \union {Contains(s) : s \in {<<>>, <<"a">>, <<"1", "2">>}}
    \union {Regex(p) : p \in Patterns}
    \union {CustomCondition(<<"a">>)}

\* The rule lists of at most MaxRules rules.
RuleConditions == {GreaterThan(1), Contains(<<"a">>), CustomCondition(<<"a">>)}

Rules == {ConditionalFormat(c, f) : c \in RuleConditions, f \in Formats}

RuleLists == Strings(Rules, MaxRules)

PhoneAlphabet == {"+", "1", " ", "-", LPAREN, "a"}

PhoneInputs == Strings(PhoneAlphabet, MaxPhoneLen)

\* A caller holds a condition (that of a rule) and a value.
InitEvaluate ==
  /\ input \in Values
  /\ rules \in {<<ConditionalFormat(c, "bold")>> : c \in Conditions}
  /\ document = <<>>
  /\ pc = "evaluate"

\* A caller holds an element and a rule list.
InitApply ==
  /\ input = <<>>
  /\ rules \in RuleLists
  /\ document \in {<<Text(v)>> : v \in Values} \union {<<Bold(<<Text(v)>>)>> : v \in Values}
  /\ pc = "apply"

\* A caller holds a text that may start with a phone number.
InitPhone ==
  /\ input \in PhoneInputs
  /\ rules = <<>>
  /\ document = <<>>
  /\ pc = "phone_parse"

InitUtil ==
  /\ InitEvaluate \/ InitApply \/ InitPhone
  /\ position = 0
  /\ tokens = <<>>
  /\ result = NoResult
  /\ mode = "None"
  /\ writer = <<>>
  /\ formatters = NoFormatters
  /\ registered = <<>>
  /\ before = <<>>
  /\ outcome = NoOutcome
  /\ callers = <<>>

\* What a call has returned.
ReturnedValue(v) == [NoResult EXCEPT !.ok = TRUE, !.value = v]

\* rules[0].condition.evaluate(input).
Evaluate ==
  /\ pc = "evaluate"
  /\ result' = ReturnedValue(evaluate(rules[1].condition, input))
  /\ pc' = "evaluated"
  /\ UNCHANGED <<input, position, tokens, document, mode, writer, genvars, utilvars>>

\* apply_conditional_format(element, &rules).
ApplyConditionalFormat ==
  /\ pc = "apply"
  /\ result' = ReturnedValue(apply_conditional_format(document[1], rules))
  /\ pc' = "applied"
  /\ UNCHANGED <<input, position, tokens, document, mode, writer, genvars, utilvars>>

\* PhoneFormatter.parse(input).
PhoneParse ==
  /\ pc = "phone_parse"
  /\ result' = ReturnedValue(PhoneFormatter_parse(input))
  /\ pc' = "phone_parsed"
  /\ UNCHANGED <<input, position, tokens, document, mode, writer, genvars, utilvars>>

NextUtil ==
  \/ Evaluate
  \/ ApplyConditionalFormat
  \/ PhoneParse

UtilSpec == InitUtil /\ [][NextUtil]_vars


(***************************************************************************)
(* C22: Condition::evaluate                                                *)
(***************************************************************************)
\* The decimal numerals of the integer n: with a minus sign when negative,
\* with an optional plus sign otherwise, and "-0" for zero.
Numeral(n) == IF n < 0 THEN <<"-">> \o to_string(0 - n) ELSE to_string(n)

Denotes(value, n) ==
  \/ value = Numeral(n)
  \/ n >= 0 /\ value = <<"+">> \o to_string(n)
  \/ n = 0 /\ value = <<"-", "0">>

\* The numbers a value of at most MaxValueLen + 1 characters can denote.
NumberRange == (0 - 10^(MaxValueLen + 1))..(10^(MaxValueLen + 1))

Evaluated == pc = "evaluated"

\* C22: evaluate always returns a boolean.  GreaterThan(t) and LessThan(t)
\* hold exactly when the value is the numeral of a number strictly greater,
\* respectively less, than t, so never for a value that is no numeral and
\* never both; Equals(s) holds exactly when the value is s; Contains(s)
\* exactly when s occurs in the value; Regex with a pattern that does not
\* compile and Custom never hold.
C22_EvaluateTotal ==
  Evaluated =>
    LET c == rules[1].condition
        v == result.value
    IN /\ v \in BOOLEAN
       /\ c.type = "GreaterThan" =>
            /\ v <=> \E n \in NumberRange : Denotes(input, n) /\ n > c.threshold
            /\ ~(v /\ evaluate(LessThan(c.threshold), input))
       /\ c.type = "LessThan" =>
            /\ v <=> \E n \in NumberRange : Denotes(input, n) /\ n < c.threshold
            /\ ~(v /\ evaluate(GreaterThan(c.threshold), input))
       /\ c.type = "Equals" => (v <=> input = c.text)
       /\ c.type = "Contains" =>
            (v <=> \E i \in 1..(Len(input) + 1) : OccursAt(input, c.text, i))
       /\ (c.type = "Regex" /\ Count(c.text, LPAREN) > Count(c.text, RPAREN)) => ~v
       /\ c.type = "Custom" => ~v

\* GreaterThan(1) has been evaluated on "2" and holds, and LessThan(1) does
\* not hold on it.
C22_Witness ==
  /\ Evaluated
  /\ rules[1].condition = GreaterThan(1)
  /\ input = <<"2">>
  /\ result.value = TRUE
  /\ ~evaluate(LessThan(1), input)


(***************************************************************************)
(* C23: apply_conditional_format                                           *)
(***************************************************************************)
Applied == pc = "applied"

\* The rules, by their place in the list, whose condition holds for text.
Holding(text) == {i \in 1..Len(rules) : evaluate(rules[i].condition, text)}

\* C23: the element comes back unchanged when it is not a Text or when no
\* rule's condition holds for its text; otherwise only the first rule of the
\* list whose condition holds is applied: its function is given the
\* one-element list of the element, and the first element of what it returns
\* comes back, or the element itself when it returns nothing.
C23_FirstHoldingRuleOnly ==
  Applied =>
    LET element == document[1]
    IN IF element.kind # "Text" \/ Holding(element.text) = {}
       THEN result.value = element
       ELSE LET first == CHOOSE i \in Holding(element.text) :
                           \A j \in Holding(element.text) : i <= j
                out == call(rules[first].format, <<element>>)
            IN result.value = IF out = <<>> THEN element ELSE out[1]

\* The first rule does not hold for the Text "a" and the second does: the
\* second has been applied.
C23_Witness ==
  /\ Applied
  /\ document = <<Text(<<"a">>)>>
  /\ rules = <<ConditionalFormat(GreaterThan(1), "bold"),
               ConditionalFormat(Contains(<<"a">>), "mark")>>
  /\ result.value = Text(<<"a", "!">>)


(***************************************************************************)
(* C25: PhoneFormatter::parse                                              *)
(***************************************************************************)
PhoneParsed == pc = "phone_parsed"

\* Digits, whitespace, "-", "(" and ")".
PhoneClass == {Digits[d + 1] : d \in 0..9} \union {" ", NEWLINE, "-", LPAREN, RPAREN}

\* The first n characters of inp are an optional "+" followed by at least
\* one character of the class.
IsPhonePrefix(inp, n) ==
  /\ n \in 1..Len(inp)
  /\ \E p \in {0, 1} :
       /\ p = 1 => inp[1] = "+"
       /\ n > p
       /\ \A i \in (p + 1)..n : inp[i] \in PhoneClass

\* C25: parse returns Some((m, n)) exactly when the input starts with an
\* optional "+" followed by at least one character of the class; m is the
\* longest such prefix, trailing whitespace included, and n its length;
\* otherwise, the empty input included, it returns None.
C25_PhoneParseLongestPrefix ==
  PhoneParsed =>
    IF \E n \in 1..Len(input) : IsPhonePrefix(input, n)
    THEN LET longest == CHOOSE n \in 1..Len(input) :
                          /\ IsPhonePrefix(input, n)
                          /\ \A k \in 1..Len(input) : IsPhonePrefix(input, k) => k <= n
         IN result.value = <<[matched |-> SubSeq(input, 1, longest), len |-> longest]>>
    ELSE result.value = <<>>

\* "1 a" has been parsed: the match is "1 " with its trailing space.
C25_Witness ==
  /\ PhoneParsed
  /\ input = <<"1", " ", "a">>
  /\ result.value = <<[matched |-> <<"1", " ">>, len |-> 2]>>


(***************************************************************************)
(* Two callers render through one shared generator                         *)
(***************************************************************************)
Callers == {1, 2}

\* The documents the callers hold: two elements each, Custom nodes of both
\* formatter names among them.
SharedDocuments ==
  {<<Text(<<"a", "!">>), Custom(PhoneName, <<"1">>)>>,
   <<Custom(UsdName, <<"1">>), Text(<<AMP>>)>>,
   <<Bold(<<Text(<<"a">>)>>), Custom(PhoneName, <<LT, "!">>)>>,
   <<Custom(UsdName, <<"1">>), Custom(PhoneName, <<"1">>)>>}

\* A caller with its document, its own writer and no call made yet.
Caller(doc) == [document |-> doc, writer |-> <<>>, outcome |-> NoOutcome]

\* Two callers with different documents, before Generator::new.
InitShared ==
  /\ input = <<>>
  /\ position = 0
  /\ tokens = <<>>
  /\ pc = "new"
  /\ result = NoResult
  /\ document = <<>>
  /\ mode = "None"
  /\ writer = <<>>
  /\ formatters = NoFormatters
  /\ registered = <<>>
  /\ before = <<>>
  /\ outcome = NoOutcome
  /\ rules = <<>>
  /\ callers \in {<<Caller(p[1]), Caller(p[2])>> :
                    p \in {q \in SharedDocuments \X SharedDocuments : q[1] # q[2]}}

\* A generate that takes the formatter it uses out of the registry.
generator_after_generate_taking(self, element) ==
  [self EXCEPT !.formatters =
     {e \in @ : ~(element.kind = "Custom" /\ e.key = element.formatter)}]

\* generate takes &self: the generator after the call is the one before it.
generator_after_generate(self, element) == self

\* Caller c calls generator.generate(&mut its writer, element) for the next
\* element of its document; a caller stops at its first error.  The other
\* caller may be between two of its own calls.
CallerGenerate(c) ==
  /\ pc \in {"ready", "shared"}
  /\ c \in DOMAIN callers
  /\ callers[c].outcome.ok
  /\ callers[c].outcome.calls < Len(callers[c].document)
  /\ LET me == callers[c]
         self == Generator(mode, formatters)
         element == me.document[me.outcome.calls + 1]
         r == generate(self, me.writer, element)
         after == generator_after_generate(self, element)
     IN /\ callers' = [callers EXCEPT ![c] =
                         [document |-> me.document, writer |-> r.writer,
                          outcome |-> Returned(me.outcome.calls + 1, r)]]
        /\ formatters' = after.formatters
        /\ mode' = after.mode
  /\ pc' = "shared"
  /\ UNCHANGED <<input, position, tokens, result, document, writer, registered, before,
                 outcome, rules>>

\* register_formatter takes &mut self: it is called before the generator is
\* shared, never after the first generate.
NextShared ==
  \/ \E m \in ParseModes : New(m)
  \/ \E f \in Formatters : RegisterFormatter(f)
  \/ \E c \in Callers : CallerGenerate(c)

SharedSpec == InitShared /\ [][NextShared]_vars

(***************************************************************************)
(* C24: callers of a shared generator do not disturb each other            *)
(***************************************************************************)
\* The registry after the registrations fs, in their order.
RECURSIVE RegistryOf(_)
RegistryOf(fs) ==
  IF fs = <<>> THEN NoFormatters
  ELSE insert(RegistryOf(SubSeq(fs, 1, Len(fs) - 1)),
              formatter_name(fs[Len(fs)]), fs[Len(fs)])

\* What a caller alone gets for the first k elements of its document from a
\* generator of the dialect m with the registrations fs.
Alone(doc, k, m, fs) ==
  generate_elements(Generator(m, RegistryOf(fs)), <<>>, SubSeq(doc, 1, k), m)

EscapesAsText(toks) ==
  [i \in 1..Len(toks) |->
     IF toks[i].type = "Escape" THEN TokV("Text", toks[i].val) ELSE toks[i]]

\* parse has returned for an input with a backslash and no backtick.
ParsedEscape ==
  /\ Parsed
  /\ \E i \in 1..Len(input) : input[i] = BACKSLASH
  /\ \A i \in 1..Len(input) : input[i] # BACKTICK

\* C26: outside code, the first backslash of the input with the character c
\* after it is lexed as Escape(c), and a backslash that ends the input as
\* the text run of one backslash; parse gives for the tokens what it gives
\* when every Escape(c) is the text run "c" instead, which opens and closes
\* nothing: the same error or success and the same tree, with Text(c) for
\* the escape.
C26_EscapeIsText ==
  ParsedEscape =>
    LET p == FirstIndex(input, BACKSLASH)
        alt == parse(EscapesAsText(tokens))
    IN /\ p < Len(input) =>
            \E i \in 1..Len(tokens) : tokens[i] = TokV("Escape", <<input[p + 1]>>)
       /\ p = Len(input) => tokens[Len(tokens) - 1] = TokV("Text", <<BACKSLASH>>)
       /\ result.ok = alt.ok
       /\ result.ok => result.value = alt.value


(***************************************************************************)
(* C27: a token that starts no construct                                   *)
(***************************************************************************)
\* The tokens of ")", "(", "]", "{", "}", "|" and of a lone "@", "#", "/".
StrayTypes ==
  {"RightParen", "LeftParen", "RightBracket", "LeftBrace", "RightBrace", "Pipe",
   "At", "Hash", "Slash"}

\* The tokens before Eof.
Body(toks) == SubSeq(toks, 1, Len(toks) - 1)

\* C27: wherever such a token stands in the token stream, parse_element
\* called there succeeds, moves the cursor past that one token and returns
\* one Text node with the empty string; and when the input is made of such
\* tokens and text runs only, parse succeeds with one node per token, the
\* text of a run and the empty string for each of the others.
C27_StrayTokenIsEmptyText ==
  Parsed =>
    /\ \A c \in 0..(Len(tokens) - 1) :
         tokens[c + 1].type \in StrayTypes =>
           LET r == parse_element(tokens, c)
           IN r.ok /\ r.cursor = c + 1 /\ r.value = Text(<<>>)
    /\ TypesOf(Body(tokens)) \subseteq StrayTypes \union {"Text"} =>
         /\ result.ok
         /\ result.value =
              [i \in 1..Len(Body(tokens)) |->
                 IF tokens[i].type = "Text" THEN Text(tokens[i].val) ELSE Text(<<>>)]

\* ")a|" has been parsed.
C27_Witness ==
  /\ Parsed
  /\ input = <<RPAREN, "a", PIPE>>
  /\ result.ok
  /\ result.value = <<Text(<<>>), Text(<<"a">>), Text(<<>>)>>


(***************************************************************************)
(* C28: the rules of a table                                               *)
(***************************************************************************)
\* generate has returned Ok for a table that carries rules.
RenderedRuledTable ==
  /\ pc = "done"
  /\ tokens = <<>>
  /\ outcome.ok
  /\ Len(document) = 1
  /\ document[1].kind = "Table"
  /\ document[1].table.rules # <<>>

\* The Text children of the cells of a table.
CellTexts(t) ==
  {n \in UNION {NodesOfCells(all_rows(t)[r]) : r \in 1..Len(all_rows(t))} : n.kind = "Text"}

\* A rule of the table holds for the text of a cell and its transformation
\* gives a Text of another text.
SomeRuleChangesACell(t) ==
  \E n \in CellTexts(t) :
    LET out == apply_conditional_format(n, t.rules)
    IN out.kind = "Text" /\ out.text # n.text

\* C28: when a rule of the table holds for the text of a cell and its
\* transformation changes that text, the output for the table is not the
\* output for the same table with an empty rule list.
C28_TableRulesApplied ==
  (RenderedRuledTable /\ SomeRuleChangesACell(document[1].table)) =>
    writer # generate_table(<<>>, [document[1].table EXCEPT !.rules = <<>>]).writer


(***************************************************************************)
(* C29: the cursor of the parser                                           *)
(***************************************************************************)
\* The number of nodes of the trees a parse returns.
RECURSIVE SizeOfElements(_)
SizeOfElements(es) ==
  IF es = <<>> THEN 0
  ELSE 1 + (IF Head(es).kind \in StyledKinds \union {"Link"}
            THEN SizeOfElements(Head(es).children) ELSE 0)
         + SizeOfElements(Tail(es))

\* C29: advance never moves the cursor back nor past the number of tokens;
\* a call of parse_element at a cursor where a token is available returns,
\* with a node or with an error, at a cursor that is at least one token
\* further and not past the tokens, and the node it returns has at most as
\* many nodes as tokens were consumed for it; parse returns at a cursor
\* within the tokens with at most as many nodes as tokens consumed, so that
\* no loop runs more often than there are tokens left.
C29_CursorAdvances ==
  Parsed =>
    /\ \A c \in 0..Len(tokens) : advance(tokens, c) \in c..Len(tokens)
    /\ \A c \in 0..(Len(tokens) - 1) :
         LET r == parse_element(tokens, c)
         IN /\ r.cursor \in (c + 1)..Len(tokens)
            /\ r.ok => SizeOfElements(<<r.value>>) <= r.cursor - c
    /\ result.cursor \in 0..Len(tokens)
    /\ result.ok => /\ SizeOfElements(result.value) <= result.cursor
                    /\ stream_is_at_end(tokens, result.cursor)

\* parse has returned for "**a*b*c**": nine tokens and Eof, five nodes.
C29_Witness ==
  /\ Parsed
  /\ input = Nest(<<STAR, STAR>>, <<STAR>>)
  /\ result.ok
  /\ result.cursor = 9
  /\ SizeOfElements(result.value) = 5


(***************************************************************************)
(* C30: reading back a MarkdownV2 text                                     *)
(***************************************************************************)
\* What a reader of MarkdownV2 gets from out under the rule that a backslash
\* makes the character after it literal: the literal text, and whether a
\* reserved character (or a backslash with nothing after it) was met
\* outside such a pair.
RECURSIVE ReadBack(_, _, _)
ReadBack(out, text, active) ==
  IF out = <<>> THEN [text |-> text, active |-> active]
  ELSE IF Head(out) = BACKSLASH
  THEN IF Len(out) >= 2
       THEN ReadBack(Tail(Tail(out)), Append(text, out[2]), active)
       ELSE ReadBack(<<>>, text, TRUE)
  ELSE ReadBack(Tail(out), Append(text, Head(out)), active \/ Head(out) \in MarkdownReserved)

\* A Text built by the caller has been rendered in MarkdownV2.
RenderedMarkdownText == BuiltText /\ pc = "done" /\ mode = "MarkdownV2"

\* C30: read back with that rule, the output for Text(s) in MarkdownV2 is s,
\* and no reserved character of it stands outside a backslash pair.
C30_MarkdownTextReadsBack ==
  RenderedMarkdownText =>
    LET read == ReadBack(writer, <<>>, FALSE)
    IN read.text = document[1].text /\ ~read.active

====
